---- MODULE Spec2Model ----
(***************************************************************************)
(* A model of rlox, a tree-walking interpreter for a small Lox dialect:    *)
(* the Environment (src/src/environment.rs), the Interpreter               *)
(* (src/src/interpeter.rs), the Parser (src/src/parser.rs) and the REPL    *)
(* driver (src/src/main.rs).                                               *)
(***************************************************************************)
EXTENDS Integers, Sequences, FiniteSets, TLC

VARIABLES
    stack,      \* Environment.stack: the scopes, innermost first (front of the LinkedList)
    heap,       \* the Rc<Literal> allocations: address -> Literal
    ret,        \* the last Environment operation and what it returned
    kont,       \* the activations of interpret / evaluate_statement, innermost first
    status,     \* "idle", "running", "unwinding" (an Err is propagating), "done", "panicked"
    result,     \* what interpret returned: Ok(()) or Err(String)
    out,        \* the lines printed to stdout by the current call
    steps,      \* statements evaluated by the current call
    errdepth,   \* history: the number of scopes when the current call's Err arose (0: none)
    src,        \* the source text given to run / to the scanner, as its lexemes
    parsed,     \* what the front end (scanner, then parser) returned for src
    runs        \* history: the outcome of every call of run so far

(***************************************************************************)
(* Bounds of the model.                                                    *)
(***************************************************************************)
MaxForks == 1
MaxSize == 3
MaxSteps == 22
MaxRuns == 3
MaxPieces == 3
\* Literal::Integer is an i64; the model keeps IntegerBits bits of it
IntegerBits == 8
\* the sources given to the Scanner character by character have at most MaxChars
MaxChars == 4
\* the token vectors given to the Parser step by step have at most MaxTokens
MaxTokens == 3

(***************************************************************************)
(* data/literals.rs: Literal, a tagged value.                              *)
(***************************************************************************)
Identifier(s) == [t |-> "Identifier", v |-> s]
StringT(s) == [t |-> "StringT", v |-> s]
Integer(i) == [t |-> "Integer", v |-> i]
Number(n) == [t |-> "Number", v |-> n]
True == [t |-> "True", v |-> 0]
False == [t |-> "False", v |-> 0]
Nil == [t |-> "Nil", v |-> 0]

\* Option::None where a Literal or an Rc<Literal> is expected
NoValue == [t |-> "None", v |-> 0]
NoRef == 0

(***************************************************************************)
(* environment.rs: a LinkedList of HashMap<String, Rc<Literal>>.           *)
(* An environment value is [stack, heap]; a scope maps the names it holds  *)
(* to addresses of the heap.                                               *)
(***************************************************************************)
EmptyMap == [x \in {} |-> NoRef]

MapInsert(m, k, x) == [y \in DOMAIN m \cup {k} |-> IF y = k THEN x ELSE m[y]]

\* Environment::new: one (global) scope
EnvNew == [stack |-> <<EmptyMap>>, heap |-> EmptyMap]

\* Rc::new: a fresh allocation holding value
RcFresh(E) == CHOOSE r \in 1..(Cardinality(DOMAIN E.heap) + 1) : r \notin DOMAIN E.heap

RcNew(E, value) == [E EXCEPT !.heap = MapInsert(@, RcFresh(E), value)]

\* Rc as_ref / clone of the Literal behind an address
Deref(E, r) == IF r = NoRef THEN NoValue ELSE E.heap[r]

\* Rc drop: an allocation no scope refers to any more is freed. The address of an
\* allocation cannot be observed, so the live ones are renumbered in the order in
\* which the scopes (front first, names in the order of Idents) reach them.
Idents == <<"a", "b", "c", "i", "x">>

RECURSIVE ReachOrder(_, _, _)
ReachOrder(E, pos, acc) ==
    IF pos > Len(E.stack) * Len(Idents)
    THEN acc
    ELSE LET i == ((pos - 1) \div Len(Idents)) + 1
             n == Idents[((pos - 1) % Len(Idents)) + 1]
         IN  IF n \in DOMAIN E.stack[i] /\ \A k \in DOMAIN acc : acc[k] # E.stack[i][n]
             THEN ReachOrder(E, pos + 1, Append(acc, E.stack[i][n]))
             ELSE ReachOrder(E, pos + 1, acc)

Collect(E) ==
    LET order == ReachOrder(E, 1, <<>>)
    IN  [stack |-> [i \in DOMAIN E.stack |->
                      [n \in DOMAIN E.stack[i] |->
                          CHOOSE k \in DOMAIN order : order[k] = E.stack[i][n]]],
         heap |-> [k \in DOMAIN order |-> E.heap[order[k]]]]

JoinError == "Attempted to join in a non-forked environment"

\* Environment::join: pop_front; an error only when the list is empty
join(E) ==
    IF Len(E.stack) = 0
    THEN [ok |-> FALSE, err |-> JoinError, env |-> E]
    ELSE [ok |-> TRUE, err |-> "", env |-> [E EXCEPT !.stack = Tail(@)]]

\* Environment::fork: push_front of an empty scope
fork(E) == [E EXCEPT !.stack = <<EmptyMap>> \o @]

\* Environment::define: insert into the front scope, if there is one
define(E, name, value) ==
    IF Len(E.stack) = 0
    THEN E
    ELSE LET r == RcFresh(E)
             A == RcNew(E, value)
         IN  [A EXCEPT !.stack[1] = MapInsert(@, name, r)]

\* the index of the first scope, from the front, that holds name (0: none)
ScopeOf(E, name) ==
    IF \E i \in DOMAIN E.stack : name \in DOMAIN E.stack[i]
    THEN CHOOSE i \in DOMAIN E.stack :
            /\ name \in DOMAIN E.stack[i]
            /\ \A j \in 1..(i - 1) : name \notin DOMAIN E.stack[j]
    ELSE 0

\* a lookup from the back of the list (the outermost scope first), for comparison
get_outermost(E, name) ==
    IF ScopeOf(E, name) = 0
    THEN NoRef
    ELSE E.stack[CHOOSE i \in DOMAIN E.stack :
                    /\ name \in DOMAIN E.stack[i]
                    /\ \A j \in (i + 1)..Len(E.stack) : name \notin DOMAIN E.stack[j]][name]

\* Environment::get: the Rc of the first scope that holds name, or None
get(E, name) ==
    IF ScopeOf(E, name) = 0 THEN NoRef ELSE E.stack[ScopeOf(E, name)][name]

AssignError(name) == "Attempted to assign to '" \o name \o "' before declaration"

\* an assignment that binds in the front scope, as define does, for comparison
assign_reference_front(E, name, r) ==
    IF ScopeOf(E, name) = 0
    THEN [ok |-> FALSE, ref |-> NoRef, err |-> AssignError(name), env |-> E]
    ELSE [ok |-> TRUE, ref |-> r, err |-> "",
          env |-> [E EXCEPT !.stack[1] = MapInsert(@, name, r)]]

\* Environment::assign_reference: replace the slot in the first scope that holds name
assign_reference(E, name, r) ==
    LET i == ScopeOf(E, name)
    IN  IF i = 0
        THEN [ok |-> FALSE, ref |-> NoRef, err |-> AssignError(name), env |-> E]
        ELSE [ok |-> TRUE, ref |-> r, err |-> "",
              env |-> [E EXCEPT !.stack[i] = MapInsert(@, name, r)]]

\* an assignment that writes through the slot name is bound to, for comparison
assign_in_place(E, name, value) ==
    IF ScopeOf(E, name) = 0
    THEN [ok |-> FALSE, ref |-> NoRef, err |-> AssignError(name), env |-> E]
    ELSE [ok |-> TRUE, ref |-> get(E, name), err |-> "",
          env |-> [E EXCEPT !.heap[get(E, name)] = value]]

\* Environment::assign: Rc::new(value), then assign_reference
assign(E, name, value) == assign_reference(RcNew(E, value), name, RcFresh(E))

\* what a read of name yields: the Literal behind get(name), NoValue for None
ValueOf(E, name) == Deref(E, get(E, name))

(***************************************************************************)
(* data/tokens.rs: Token, and TokenMeta = MetaContainer<Token>.            *)
(***************************************************************************)
Tok(type) == [type |-> type, lit |-> NoValue]
LiteralTok(l) == [type |-> "Literal", lit |-> l]
TokenMeta(token, line) == [item |-> token, line |-> line]

\* f64 values are modelled as exact fractions <<num, den>>, den > 0 and in lowest
\* terms; den = 0 stands for the non-finite values (inf: num = 1, -inf: num = -1,
\* NaN: num = 0)
Abs(i) == IF i < 0 THEN -i ELSE i

RECURSIVE GCD(_, _)
GCD(m, n) == IF n = 0 THEN m ELSE GCD(n, m % n)

Frac(num, den) ==
    IF den = 0
    THEN <<IF num > 0 THEN 1 ELSE IF num < 0 THEN -1 ELSE 0, 0>>
    ELSE LET g == GCD(Abs(num), Abs(den))
             sgn == IF den < 0 THEN -1 ELSE 1
         IN  <<(sgn * num) \div g, (sgn * den) \div g>>

\* the digits of a fraction as Rust's `{}` prints an f64 that is an integer or a
\* short decimal; other fractions are printed as num/den
FracDisplay(f) ==
    IF f[2] = 0 THEN (IF f[1] > 0 THEN "inf" ELSE IF f[1] < 0 THEN "-inf" ELSE "NaN")
    ELSE IF f[2] = 1 THEN ToString(f[1])
    ELSE IF f[2] = 2
         THEN (IF f[1] < 0 THEN "-" ELSE "") \o ToString(Abs(f[1]) \div 2) \o ".5"
         ELSE ToString(f[1]) \o "/" \o ToString(f[2])

\* impl fmt::Display for Literal
LiteralDisplay(l) ==
    CASE l.t = "Identifier" -> "id:" \o l.v
      [] l.t = "StringT" -> l.v
      [] l.t = "Integer" -> ToString(l.v)
      [] l.t = "Number" -> FracDisplay(l.v)
      [] l.t = "True" -> "true"
      [] l.t = "False" -> "false"
      [] l.t = "Nil" -> "nil"

\* #[derive(Debug)] for Literal
LiteralDebug(l) ==
    CASE l.t = "Identifier" -> "Identifier(\"" \o l.v \o "\")"
      [] l.t = "StringT" -> "StringT(\"" \o l.v \o "\")"
      [] l.t = "Integer" -> "Integer(" \o ToString(l.v) \o ")"
      [] l.t = "Number" -> "Number(" \o FracDisplay(l.v) \o (IF l.v[2] = 1 THEN ".0" ELSE "") \o ")"
      [] OTHER -> l.t

\* impl fmt::Display for Token
TokenDisplay(token) ==
    CASE token.type = "LeftParen" -> "("
      [] token.type = "RightParen" -> ")"
      [] token.type = "LeftBrace" -> "{"
      [] token.type = "RightBrace" -> "}"
      [] token.type = "Comma" -> ","
      [] token.type = "Dot" -> "."
      [] token.type = "Minus" -> "-"
      [] token.type = "Plus" -> "+"
      [] token.type = "Semicolon" -> ";"
      [] token.type = "Slash" -> "/"
      [] token.type = "Star" -> "*"
      [] token.type = "Question" -> "?"
      [] token.type = "Colon" -> ":"
      [] token.type = "Bang" -> "!"
      [] token.type = "BangEqual" -> "!="
      [] token.type = "Equal" -> "="
      [] token.type = "EqualEqual" -> "=="
      [] token.type = "Greater" -> ">"
      [] token.type = "GreaterEqual" -> ">="
      [] token.type = "Lesser" -> "<"
      [] token.type = "LesserEqual" -> "<="
      [] token.type = "Literal" -> LiteralDisplay(token.lit)
      [] token.type = "And" -> "and"
      [] token.type = "Class" -> "class"
      [] token.type = "Else" -> "else"
      [] token.type = "Fun" -> "fun"
      [] token.type = "For" -> "for"
      [] token.type = "If" -> "if"
      [] token.type = "Or" -> "or"
      [] token.type = "Print" -> "print"
      [] token.type = "Return" -> "return"
      [] token.type = "Super" -> "super"
      [] token.type = "This" -> "this"
      [] token.type = "Var" -> "var"
      [] token.type = "While" -> "while"
      [] token.type = "EOF" -> "EOF"

\* #[derive(Debug)] for Token
TokenDebug(token) ==
    IF token.type = "Literal" THEN "Literal(" \o LiteralDebug(token.lit) \o ")" ELSE token.type

\* Token::is_operator
is_operator(token) ==
    token.type \in {"Bang", "BangEqual", "Equal", "EqualEqual", "Greater", "GreaterEqual",
                    "Lesser", "LesserEqual", "Star", "Slash", "Plus", "Minus"}

(***************************************************************************)
(* data/ast.rs: ExpressionItem and StatementItem in a MetaContainer        *)
(* carrying the line.                                                      *)
(***************************************************************************)
Binary(left, operator, right, line) ==
    [node |-> "Binary", left |-> left, operator |-> operator, right |-> right, line |-> line]
Logical(left, operator, right, line) ==
    [node |-> "Logical", left |-> left, operator |-> operator, right |-> right, line |-> line]
Grouping(expression, line) == [node |-> "Grouping", expression |-> expression, line |-> line]
LiteralExpr(value, line) == [node |-> "Literal", value |-> value, line |-> line]
Unary(operator, operand, line) ==
    [node |-> "Unary", operator |-> operator, operand |-> operand, line |-> line]
Ternary(test, when_true, when_false, line) ==
    [node |-> "Ternary", test |-> test, when_true |-> when_true,
     when_false |-> when_false, line |-> line]
Variable(name, line) == [node |-> "Variable", name |-> name, line |-> line]
Assignment(name, value, line) ==
    [node |-> "Assignment", name |-> name, value |-> value, line |-> line]

ExpressionStatement(expr, line) == [node |-> "ExpressionStatement", expr |-> expr, line |-> line]
PrintStatement(expr, line) == [node |-> "PrintStatement", expr |-> expr, line |-> line]
Declaration(name, initializer, line) ==
    [node |-> "Declaration", name |-> name, initializer |-> initializer, line |-> line]
Block(statements, line) == [node |-> "Block", statements |-> statements, line |-> line]
\* Option<Box<Statement>>::None
NoStatement == [node |-> "None"]
IfStatement(test, when_true, when_false, line) ==
    [node |-> "IfStatement", test |-> test, when_true |-> when_true,
     when_false |-> when_false, line |-> line]
WhileStatement(test, body, line) ==
    [node |-> "WhileStatement", test |-> test, body |-> body, line |-> line]

(***************************************************************************)
(* interpeter.rs: LoxData and the helpers of the evaluator.                *)
(***************************************************************************)
ByValue(l) == [ref |-> NoRef, lit |-> l]
ByReference(r) == [ref |-> r, lit |-> NoValue]

\* LoxData::as_ref
as_ref(E, data) == IF data.ref = NoRef THEN data.lit ELSE E.heap[data.ref]

\* for comparison: a rule that takes the Integer 0 as false too
as_boolean_zero(literal) == literal \notin {False, Nil, Integer(0)}

as_boolean(literal) ==
    CASE literal.t \in {"False", "Nil"} -> FALSE
      [] literal.t = "Identifier" -> TRUE
      [] OTHER -> TRUE

negate(literal) == ~as_boolean(literal)

from_boolean(boolean) == IF boolean THEN True ELSE False

\* the range of Literal::Integer
MinInteger == -(2 ^ (IntegerBits - 1))
MaxInteger == (2 ^ (IntegerBits - 1)) - 1

\* the Integer a build without overflow checks computes: the result modulo
\* 2^IntegerBits, in two's complement
Wrap(i) == ((i - MinInteger) % (2 ^ IntegerBits)) + MinInteger

\* the arithmetic of the Integer arms: with overflow checks (the debug profile)
\* an overflow is a panic, without them (the release profile) the result wraps
Overflows(i) == i < MinInteger \/ i > MaxInteger

\* as_f64, for the two numeric variants
as_f64(literal) == IF literal.t = "Integer" THEN <<literal.v, 1>> ELSE literal.v

FracAdd(x, y) ==
    IF x[2] = 0 \/ y[2] = 0
    THEN (IF x[2] = 0 /\ y[2] = 0 THEN (IF x[1] = y[1] THEN x ELSE <<0, 0>>)
          ELSE IF x[2] = 0 THEN x ELSE y)
    ELSE Frac(x[1] * y[2] + y[1] * x[2], x[2] * y[2])
FracNeg(x) == <<-x[1], x[2]>>
FracSub(x, y) == FracAdd(x, FracNeg(y))
FracSign(x) == IF x[1] > 0 THEN 1 ELSE IF x[1] < 0 THEN -1 ELSE 0
FracMul(x, y) ==
    IF x[2] = 0 \/ y[2] = 0
    THEN <<FracSign(x) * FracSign(y), 0>>
    ELSE Frac(x[1] * y[1], x[2] * y[2])
FracDiv(x, y) ==
    IF x[2] = 0 \/ y[2] = 0
    THEN (IF x[2] = 0 /\ y[2] = 0 THEN <<0, 0>>
          ELSE IF x[2] = 0 THEN <<x[1] * (IF y[1] < 0 THEN -1 ELSE 1), 0>>
          ELSE <<0, 1>>)
    ELSE Frac(x[1] * y[2], x[2] * y[1])
FracIsNaN(x) == x[2] = 0 /\ x[1] = 0
FracLess(x, y) ==
    IF FracIsNaN(x) \/ FracIsNaN(y) THEN FALSE
    ELSE IF x[2] = 0 \/ y[2] = 0
         THEN (IF x[2] = 0 /\ y[2] = 0 THEN x[1] < y[1]
               ELSE IF x[2] = 0 THEN x[1] < 0 ELSE y[1] > 0)
         ELSE x[1] * y[2] < y[1] * x[2]
FracEq(x, y) == ~FracIsNaN(x) /\ x = y

\* #[derive(PartialEq)] for Literal
LiteralEq(l, r) ==
    /\ l.t = r.t
    /\ IF l.t = "Number" THEN FracEq(l.v, r.v) ELSE l.v = r.v

\* for comparison: Integer operands only
IsInteger(l) == l.t = "Integer"

\* the operands of the arms (Integer, Number), (Number, Integer), (Number, Number)
\* and (Integer, Integer)
IsNumeric(l) == l.t \in {"Integer", "Number"}

\* what evaluate_expression returns: Ok(LoxData) or Err(String), and the
\* environment it leaves
EvalOk(data, E) == [ok |-> TRUE, data |-> data, err |-> "", env |-> E]
EvalErr(err, E) == [ok |-> FALSE, data |-> ByValue(NoValue), err |-> err, env |-> E]

\* for comparison: an error without its line
NoLineMsg(line, msg) == msg

LineMsg(line, msg) == "Line " \o ToString(line) \o ": " \o msg

TypesError(line, operator) ==
    LineMsg(line, TokenDisplay(operator) \o " cannot be applied to the given types")

\* for comparison: the right operand first
FormatReversed(left, right) == LiteralDisplay(right) \o left

\* format!("{}{}", left, right) of the arm (StringT(left), right) of Plus
Format(left, right) == left \o LiteralDisplay(right)

\* the arms of `match operator` for Binary, on the two evaluated operands
BinaryApply(operator, l, r, line, E) ==
    LET ints == l.t = "Integer" /\ r.t = "Integer"
        nums == IsNumeric(l) /\ IsNumeric(r)
        x == as_f64(l)
        y == as_f64(r)
        type == operator.type
    IN  CASE type = "Star" ->
               IF ints THEN EvalOk(ByValue(Integer(Wrap(l.v * r.v))), E)
               ELSE IF nums THEN EvalOk(ByValue(Number(FracMul(x, y))), E)
               ELSE EvalErr(TypesError(line, operator), E)
          [] type = "Minus" ->
               IF ints THEN EvalOk(ByValue(Integer(Wrap(l.v - r.v))), E)
               ELSE IF nums THEN EvalOk(ByValue(Number(FracSub(x, y))), E)
               ELSE EvalErr(TypesError(line, operator), E)
          [] type = "Plus" ->
               IF ints THEN EvalOk(ByValue(Integer(Wrap(l.v + r.v))), E)
               ELSE IF nums THEN EvalOk(ByValue(Number(FracAdd(x, y))), E)
               ELSE IF l.t = "StringT" /\ r.t = "StringT"
                    THEN EvalOk(ByValue(StringT(l.v \o r.v)), E)
               ELSE IF l.t = "StringT" THEN EvalOk(ByValue(StringT(Format(l.v, r))), E)
               ELSE EvalErr(TypesError(line, operator), E)
          [] type = "Slash" ->
               IF nums THEN EvalOk(ByValue(Number(FracDiv(x, y))), E)
               ELSE EvalErr(TypesError(line, operator), E)
          [] type = "Greater" ->
               IF ints THEN EvalOk(ByValue(from_boolean(l.v > r.v)), E)
               ELSE IF nums THEN EvalOk(ByValue(from_boolean(FracLess(y, x))), E)
               ELSE EvalErr(TypesError(line, operator), E)
          [] type = "GreaterEqual" ->
               IF ints THEN EvalOk(ByValue(from_boolean(l.v >= r.v)), E)
               ELSE IF nums
                    THEN EvalOk(ByValue(from_boolean(FracLess(y, x) \/ FracEq(x, y))), E)
               ELSE EvalErr(TypesError(line, operator), E)
          [] type = "Lesser" ->
               IF ints THEN EvalOk(ByValue(from_boolean(l.v < r.v)), E)
               ELSE IF nums THEN EvalOk(ByValue(from_boolean(FracLess(x, y))), E)
               ELSE EvalErr(TypesError(line, operator), E)
          [] type = "LesserEqual" ->
               IF ints THEN EvalOk(ByValue(from_boolean(l.v <= r.v)), E)
               ELSE IF nums
                    THEN EvalOk(ByValue(from_boolean(FracLess(x, y) \/ FracEq(x, y))), E)
               ELSE EvalErr(TypesError(line, operator), E)
          [] type = "EqualEqual" -> EvalOk(ByValue(from_boolean(LiteralEq(l, r))), E)
          [] type = "BangEqual" -> EvalOk(ByValue(from_boolean(~LiteralEq(l, r))), E)
          [] OTHER ->
               EvalErr(LineMsg(line, TokenDisplay(operator) \o " is not a valid operator"), E)

\* the arms of `match operator` for Unary, on the evaluated operand
UnaryApply(operator, data, operand_line, E) ==
    LET v == as_ref(E, data)
    IN  CASE operator.type = "Plus" -> EvalOk(data, E)
          [] operator.type = "Minus" ->
               IF v.t = "Integer" THEN EvalOk(ByValue(Integer(Wrap(-v.v))), E)
               ELSE IF v.t = "Number" THEN EvalOk(ByValue(Number(FracNeg(v.v))), E)
               ELSE EvalErr(LineMsg(operand_line,
                                    "Type Error: cannot negate " \o LiteralDebug(v)), E)
          [] operator.type = "Bang" -> EvalOk(ByValue(from_boolean(negate(v))), E)
          [] OTHER ->
               EvalErr(LineMsg(operand_line,
                               "Unexpected unary operator " \o TokenDebug(operator)), E)

\* whether the Integer arm of `match operator` overflows on the two operands
BinaryOverflows(operator, l, r) ==
    /\ l.t = "Integer"
    /\ r.t = "Integer"
    /\ CASE operator.type = "Star" -> Overflows(l.v * r.v)
         [] operator.type = "Minus" -> Overflows(l.v - r.v)
         [] operator.type = "Plus" -> Overflows(l.v + r.v)
         [] OTHER -> FALSE

\* whether `-i` overflows on the operand
UnaryOverflows(operator, v) ==
    operator.type = "Minus" /\ v.t = "Integer" /\ Overflows(-v.v)

\* for comparison: a logical operator that always evaluates its right operand
NeverReturnsLeft(operator, left_bool) == FALSE

\* the arms And and Or of `match operator` for Logical: whether eval_left is returned
ReturnsLeft(operator, left_bool) ==
    \/ operator.type = "And" /\ ~left_bool
    \/ operator.type = "Or" /\ left_bool

\* for comparison: a ternary that evaluates when_true whatever the test
AlwaysWhenTrue(test_bool, when_true, when_false) == when_true

\* `if result { when_true } else { when_false }` of the arm Ternary, on the
\* truthiness of the test
Selected(test_bool, when_true, when_false) ==
    IF test_bool THEN when_true ELSE when_false

\* Interpreter::evaluate_expression
RECURSIVE evaluate_expression(_, _)
evaluate_expression(E, expression) ==
    CASE expression.node = "Grouping" -> evaluate_expression(E, expression.expression)
      [] expression.node = "Literal" -> EvalOk(ByValue(expression.value), E)
      [] expression.node = "Unary" ->
           LET o == evaluate_expression(E, expression.operand)
           IN  IF ~o.ok THEN o
               ELSE UnaryApply(expression.operator, o.data, expression.operand.line, o.env)
      [] expression.node = "Logical" ->
           LET l == evaluate_expression(E, expression.left)
               left_bool == as_boolean(as_ref(l.env, l.data))
               type == expression.operator.type
           IN  IF ~l.ok THEN l
               ELSE IF ReturnsLeft(expression.operator, left_bool) THEN l
               ELSE IF type \notin {"And", "Or"}
                    THEN EvalErr(LineMsg(expression.left.line,
                                         TokenDisplay(expression.operator)
                                            \o " is not supported as a logical operator"),
                                 l.env)
               ELSE evaluate_expression(l.env, expression.right)
      [] expression.node = "Binary" ->
           LET l == evaluate_expression(E, expression.left)
               r == evaluate_expression(l.env, expression.right)
           IN  IF ~l.ok THEN l
               ELSE IF ~r.ok THEN r
               ELSE BinaryApply(expression.operator, as_ref(r.env, l.data),
                                as_ref(r.env, r.data), expression.left.line, r.env)
      [] expression.node = "Ternary" ->
           LET c == evaluate_expression(E, expression.test)
           IN  IF ~c.ok THEN c
               ELSE evaluate_expression(c.env, Selected(as_boolean(as_ref(c.env, c.data)),
                                                        expression.when_true,
                                                        expression.when_false))
      [] expression.node = "Variable" ->
           IF get(E, expression.name) # NoRef
           THEN EvalOk(ByReference(get(E, expression.name)), E)
           ELSE EvalErr(LineMsg(expression.line,
                                "Variable '" \o expression.name
                                   \o "' referenced before assignment"), E)
      [] expression.node = "Assignment" ->
           LET v == evaluate_expression(E, expression.value)
               a == IF v.data.ref = NoRef
                    THEN assign(v.env, expression.name, v.data.lit)
                    ELSE assign_reference(v.env, expression.name, v.data.ref)
           IN  IF ~v.ok THEN v
               ELSE IF a.ok THEN EvalOk(ByReference(a.ref), a.env)
               ELSE EvalErr(LineMsg(expression.line, a.err), a.env)

\* whether an Integer operation overflows while evaluate_expression evaluates the
\* expression: the operands are evaluated in the order of the code, and an operation
\* is reached only when the ones before it returned Ok
RECURSIVE ExpressionOverflows(_, _)
ExpressionOverflows(E, expression) ==
    CASE expression.node = "Grouping" -> ExpressionOverflows(E, expression.expression)
      [] expression.node = "Unary" ->
           LET o == evaluate_expression(E, expression.operand)
           IN  \/ ExpressionOverflows(E, expression.operand)
               \/ o.ok /\ UnaryOverflows(expression.operator, as_ref(o.env, o.data))
      [] expression.node = "Logical" ->
           LET l == evaluate_expression(E, expression.left)
           IN  \/ ExpressionOverflows(E, expression.left)
               \/ /\ l.ok
                  /\ ~ReturnsLeft(expression.operator, as_boolean(as_ref(l.env, l.data)))
                  /\ ExpressionOverflows(l.env, expression.right)
      [] expression.node = "Binary" ->
           LET l == evaluate_expression(E, expression.left)
               r == evaluate_expression(l.env, expression.right)
           IN  \/ ExpressionOverflows(E, expression.left)
               \/ l.ok /\ ExpressionOverflows(l.env, expression.right)
               \/ /\ l.ok
                  /\ r.ok
                  /\ BinaryOverflows(expression.operator, as_ref(r.env, l.data),
                                     as_ref(r.env, r.data))
      [] expression.node = "Ternary" ->
           LET c == evaluate_expression(E, expression.test)
           IN  \/ ExpressionOverflows(E, expression.test)
               \/ /\ c.ok
                  /\ ExpressionOverflows(c.env, Selected(as_boolean(as_ref(c.env, c.data)),
                                                         expression.when_true,
                                                         expression.when_false))
      [] expression.node = "Assignment" -> ExpressionOverflows(E, expression.value)
      [] OTHER -> FALSE

(***************************************************************************)
(* interpeter.rs: Interpreter::interpret and evaluate_statement, one       *)
(* statement at a time. kont holds the calls in progress: the iteration of *)
(* interpret over its statements, the loop of a Block over its children,   *)
(* and a statement about to be evaluated (the branch of an if, the body of *)
(* a while and the while statement itself, which is evaluated again after  *)
(* its body).                                                              *)
(***************************************************************************)
Frame(f, statements, pc, stmt) ==
    [f |-> f, statements |-> statements, pc |-> pc, stmt |-> stmt]
InterpretFrame(statements) == Frame("interpret", statements, 1, NoStatement)
BlockFrame(statements) == Frame("Block", statements, 1, NoStatement)
ExecFrame(stmt) == Frame("Exec", <<>>, 0, stmt)

\* the statement evaluated next, and the calls in progress once it is taken
HasCurrent(k) == k # <<>> /\ (k[1].f = "Exec" \/ k[1].pc <= Len(k[1].statements))
Current(k) == IF k[1].f = "Exec" THEN k[1].stmt ELSE k[1].statements[k[1].pc]
Rest(k) == IF k[1].f = "Exec" THEN Tail(k) ELSE <<[k[1] EXCEPT !.pc = @ + 1]>> \o Tail(k)

ResultOk == [ok |-> TRUE, err |-> ""]
ResultErr(e) == [ok |-> FALSE, err |-> e]

\* the statement returned Ok(()): go on with k
Continue(E, k, o) ==
    [env |-> E, kont |-> k, out |-> o, status |-> "running", result |-> ResultOk]

\* for comparison: the error is recorded and the following statements are evaluated all the
\* same
RaiseAndGoOn(E, k, o, e) ==
    [env |-> E, kont |-> k, out |-> o, status |-> "running", result |-> ResultErr(e)]

\* the statement returned Err(e): `?` hands e to the caller
Raise(E, k, o, e) ==
    [env |-> E, kont |-> k, out |-> o, status |-> "unwinding", result |-> ResultErr(e)]

\* Interpreter::evaluate_statement: one match arm, up to its first nested call
evaluate_statement(E, statement, rest, o) ==
    CASE statement.node = "ExpressionStatement" ->
           LET R == evaluate_expression(E, statement.expr)
           IN  IF R.ok THEN Continue(R.env, rest, o) ELSE Raise(R.env, rest, o, R.err)
      [] statement.node = "PrintStatement" ->
           LET R == evaluate_expression(E, statement.expr)
           IN  IF R.ok
               THEN Continue(R.env, rest, Append(o, LiteralDisplay(as_ref(R.env, R.data))))
               ELSE Raise(R.env, rest, o, R.err)
      [] statement.node = "Declaration" ->
           LET R == evaluate_expression(E, statement.initializer)
           IN  IF R.ok
               THEN Continue(define(R.env, statement.name, as_ref(R.env, R.data)), rest, o)
               ELSE Raise(R.env, rest, o, R.err)
      [] statement.node = "Block" ->
           Continue(fork(E), <<BlockFrame(statement.statements)>> \o rest, o)
      [] statement.node = "IfStatement" ->
           LET R == evaluate_expression(E, statement.test)
           IN  IF ~R.ok THEN Raise(R.env, rest, o, R.err)
               ELSE IF as_boolean(as_ref(R.env, R.data))
                    THEN Continue(R.env, <<ExecFrame(statement.when_true)>> \o rest, o)
               ELSE IF statement.when_false # NoStatement
                    THEN Continue(R.env, <<ExecFrame(statement.when_false)>> \o rest, o)
               ELSE Continue(R.env, rest, o)
      [] statement.node = "WhileStatement" ->
           LET R == evaluate_expression(E, statement.test)
           IN  IF ~R.ok THEN Raise(R.env, rest, o, R.err)
               ELSE IF as_boolean(as_ref(R.env, R.data))
                    THEN Continue(R.env,
                                  <<ExecFrame(statement.body), ExecFrame(statement)>> \o rest, o)
               ELSE Continue(R.env, rest, o)

\* whether an Integer operation overflows in the expression the match arm evaluates
StatementOverflows(E, statement) ==
    CASE statement.node \in {"ExpressionStatement", "PrintStatement"} ->
           ExpressionOverflows(E, statement.expr)
      [] statement.node = "Declaration" -> ExpressionOverflows(E, statement.initializer)
      [] statement.node \in {"IfStatement", "WhileStatement"} ->
           ExpressionOverflows(E, statement.test)
      [] OTHER -> FALSE

\* for comparison: a Block that returns the error of a child without joining
UnwindFrameNoJoin(E, frame) == [ok |-> TRUE, err |-> "", env |-> E]

\* what an Err passing through a call in progress does to the environment:
\* a Block joins before it returns the error, the other calls only return it
UnwindFrame(E, frame) ==
    IF frame.f = "Block" THEN join(E) ELSE [ok |-> TRUE, err |-> "", env |-> E]

Env == [stack |-> stack, heap |-> heap]

SetEnv(E) ==
    /\ stack' = Collect(E).stack
    /\ heap' = Collect(E).heap

\* the last operation on the Environment: its name and arguments (the name, the value
\* and the line given), whether the slot it was to replace was shared with another
\* binding, and what it returned (Ok or not, the value, the error)
Ret(op, name, arg, line, shared, ok, val, err) ==
    [op |-> op, name |-> name, arg |-> arg, line |-> line, shared |-> shared,
     ok |-> ok, val |-> val, err |-> err]

RetNew == Ret("new", "", NoValue, 0, FALSE, TRUE, NoValue, "")

\* the front end has not been given a source
NotParsed == [stage |-> "none", ok |-> FALSE, val |-> <<>>, err |-> ""]

\* the call of run in progress, if there is one, returns with outcome o
Returned(history, o) ==
    IF history = <<>> THEN history ELSE [history EXCEPT ![Len(history)] = o]

\* Interpreter::interpret(statements) is called
Interpret(statements) ==
    /\ status = "idle"
    /\ kont' = <<InterpretFrame(statements)>>
    /\ status' = "running"
    /\ result' = ResultOk
    /\ out' = <<>>
    /\ steps' = 0
    /\ errdepth' = 0
    /\ UNCHANGED <<stack, heap, ret, src, parsed, runs>>

\* the next statement is evaluated. When an Integer operation of its expression
\* overflows, the build decides: with overflow checks the thread panics at the
\* operation, without them evaluation goes on with the wrapped result
EvaluateStatement ==
    /\ status = "running"
    /\ steps < MaxSteps
    /\ HasCurrent(kont)
    /\ \/ LET C == evaluate_statement(Env, Current(kont), Rest(kont), out)
          IN  /\ SetEnv(C.env)
              /\ kont' = C.kont
              /\ out' = C.out
              /\ status' = C.status
              /\ result' = C.result
              /\ steps' = steps + 1
              /\ errdepth' = IF C.status = "unwinding" THEN Len(stack) ELSE errdepth
       \/ /\ StatementOverflows(Env, Current(kont))
          /\ status' = "panicked"
          /\ UNCHANGED <<stack, heap, kont, out, result, steps, errdepth>>
    /\ UNCHANGED <<ret, src, parsed, runs>>

\* a Block has evaluated its last child: join().expect(..)
BlockJoin ==
    /\ status = "running"
    /\ kont # <<>>
    /\ kont[1].f = "Block"
    /\ kont[1].pc > Len(kont[1].statements)
    /\ IF join(Env).ok
       THEN /\ SetEnv(join(Env).env)
            /\ kont' = Tail(kont)
            /\ status' = status
       ELSE /\ status' = "panicked"
            /\ UNCHANGED <<stack, heap, kont>>
    /\ UNCHANGED <<ret, result, out, steps, errdepth, src, parsed, runs>>

\* an Err returns from the innermost call in progress
Unwind ==
    /\ status = "unwinding"
    /\ kont # <<>>
    /\ LET U == UnwindFrame(Env, kont[1])
       IN  IF U.ok
           THEN /\ SetEnv(U.env)
                /\ kont' = Tail(kont)
                /\ status' = IF kont[1].f = "interpret" THEN "done" ELSE "unwinding"
                /\ runs' = IF kont[1].f = "interpret" THEN Returned(runs, "runtime") ELSE runs
           ELSE /\ status' = "panicked"
                /\ UNCHANGED <<stack, heap, kont, runs>>
    /\ UNCHANGED <<ret, result, out, steps, errdepth, src, parsed>>

\* interpret has evaluated its last statement: Ok(())
InterpretReturn ==
    /\ status = "running"
    /\ kont # <<>>
    /\ kont[1].f = "interpret"
    /\ kont[1].pc > Len(kont[1].statements)
    /\ kont' = Tail(kont)
    /\ status' = "done"
    /\ result' = ResultOk
    /\ runs' = Returned(runs, "ok")
    /\ UNCHANGED <<stack, heap, ret, out, steps, errdepth, src, parsed>>

Execute == EvaluateStatement \/ BlockJoin \/ Unwind \/ InterpretReturn

(***************************************************************************)
(* parser.rs: the recursive-descent parser.  Every method is an operator   *)
(* of the token vector and the cursor `current` (0-based, as in the code); *)
(* it returns Ok(val) or Err(err) and the cursor it leaves behind.  The    *)
(* steps of a method that follow a call are operators of that call's       *)
(* result: they return it when it is an Err, as `?` does.                  *)
(***************************************************************************)
ParseOk(val, cur) == [ok |-> TRUE, val |-> val, cur |-> cur, err |-> ""]
ParseErr(err, cur) == [ok |-> FALSE, val |-> NoStatement, cur |-> cur, err |-> err]

is_at_end(tokens, current) == current >= Len(tokens)

\* Parser::peek, where it is Some
peek(tokens, current) == tokens[current + 1]

match_head(tokens, current, type) ==
    /\ ~is_at_end(tokens, current)
    /\ peek(tokens, current).item.type = type

\* the macro consume!: Ok(line) and advance, or Err without advancing; at the end
\* of the tokens the macro's own `?` returns the Err from the calling method (eof)
consume(tokens, current, type) ==
    IF is_at_end(tokens, current)
    THEN [ok |-> FALSE, eof |-> TRUE, val |-> 0, cur |-> current,
          err |-> "EOF: Expected " \o TokenDisplay(Tok(type)) \o " but got EOF"]
    ELSE IF peek(tokens, current).item.type = type
         THEN [ok |-> TRUE, eof |-> FALSE, val |-> peek(tokens, current).line,
               cur |-> current + 1, err |-> ""]
         ELSE [ok |-> FALSE, eof |-> FALSE, val |-> 0, cur |-> current,
               err |-> "Line " \o ToString(peek(tokens, current).line) \o ": Expected "
                          \o TokenDisplay(Tok(type)) \o " but got "
                          \o TokenDisplay(peek(tokens, current).item)]

\* `let line = consume!(self, T)?;` at the cursor: Ok(line)
Start(tokens, current, type) ==
    LET c == consume(tokens, current, type)
    IN  IF c.ok THEN ParseOk(c.val, c.cur) ELSE ParseErr(c.err, c.cur)

\* `consume!(self, T)?;` after the step that returned r
Expect(tokens, r, type) ==
    IF ~r.ok THEN r
    ELSE LET c == consume(tokens, r.cur, type)
         IN  IF c.ok THEN [r EXCEPT !.cur = c.cur] ELSE ParseErr(c.err, c.cur)

\* `consume!(self, T);` after the step that returned r: the Result is dropped, so
\* another token is left where it is; only the end of the tokens is an Err
Skip(tokens, r, type) ==
    IF ~r.ok THEN r
    ELSE LET c == consume(tokens, r.cur, type)
         IN  IF c.eof THEN ParseErr(c.err, c.cur) ELSE [r EXCEPT !.cur = c.cur]

RECURSIVE ExpressionDebug(_)
\* {:?} of an Expression: derive(Debug) of MetaContainer around the Debug of
\* ExpressionItem
ExpressionDebug(e) ==
    "MetaContainer { item: "
       \o (CASE e.node \in {"Binary", "Logical"} ->
                  "(" \o TokenDisplay(e.operator) \o " " \o ExpressionDebug(e.left)
                      \o " " \o ExpressionDebug(e.right) \o ")"
             [] e.node = "Grouping" -> "(group " \o ExpressionDebug(e.expression) \o ")"
             [] e.node = "Literal" -> "(literal " \o LiteralDisplay(e.value) \o ")"
             [] e.node = "Unary" ->
                  "(" \o TokenDisplay(e.operator) \o " " \o ExpressionDebug(e.operand) \o ")"
             [] e.node = "Ternary" ->
                  "(?: " \o ExpressionDebug(e.test) \o " " \o ExpressionDebug(e.when_true)
                         \o " " \o ExpressionDebug(e.when_false) \o ")"
             [] e.node = "Variable" -> "(var " \o e.name \o ")"
             [] e.node = "Assignment" ->
                  "(set! " \o e.name \o " " \o ExpressionDebug(e.value) \o ")")
       \o ", line: " \o ToString(e.line) \o " }"

\* the token types each binary / logical level matches
Operators(name) ==
    CASE name = "logical_or" -> {"Or"}
      [] name = "logical_and" -> {"And"}
      [] name = "equality" -> {"EqualEqual", "BangEqual"}
      [] name = "comparison" -> {"Greater", "GreaterEqual", "Lesser", "LesserEqual"}
      [] name = "addition" -> {"Plus", "Minus"}
      [] name = "multiplication" -> {"Slash", "Star"}

RECURSIVE expression(_, _), assigment(_, _), ternary(_, _), logical_or(_, _),
          logical_and(_, _), equality(_, _), comparison(_, _), addition(_, _),
          multiplication(_, _), unary(_, _), primary(_, _),
          OperatorLoop(_, _, _), NextLevel(_, _, _)

\* primary, '(' <expression> ')': the closing parenthesis after the expression
primary_group(tokens, line_number, expr) ==
    IF ~expr.ok THEN expr
    ELSE IF match_head(tokens, expr.cur, "RightParen")
    THEN ParseOk(expr.val, expr.cur + 1)
    ELSE ParseErr("Line " \o ToString(line_number)
                     \o ": Expected closing parenthesis for expression", expr.cur)

\* primary := <literal> | <id> | ( <expression> )
primary(tokens, current) ==
    IF is_at_end(tokens, current)
    THEN ParseErr("EOF: No more tokens while parsing a primary expression", current)
    ELSE LET line_number == peek(tokens, current).line
             token == peek(tokens, current).item
         IN  IF token.type = "Literal"
             THEN ParseOk(IF token.lit.t = "Identifier"
                          THEN Variable(token.lit.v, line_number)
                          ELSE LiteralExpr(token.lit, line_number),
                          current + 1)
             ELSE IF token.type = "LeftParen"
             THEN primary_group(tokens, line_number, expression(tokens, current + 1))
             ELSE ParseErr("Line " \o ToString(line_number) \o ": Failed to parse "
                              \o TokenDisplay(token) \o "; expected expression", current)

\* unary, after '+' or '-': the node around the operand
unary_node(token, line, right) ==
    IF ~right.ok THEN right ELSE ParseOk(Unary(token, right.val, line), right.cur)

\* every operator taken as a prefix of its operand, for comparison
unary_operator_prefix(token, line, operand) ==
    IF ~operand.ok THEN operand ELSE ParseOk(Unary(token, operand.val, line), operand.cur)

\* unary, on another operator: `self.primary().ok()` moves the cursor, then Err
unary_operator(token, line, operand) ==
    ParseErr("Line " \o ToString(line) \o ": " \o TokenDisplay(token)
                \o " operator requires left operand", operand.cur)

\* unary := (+ | - | !)? <primary>
unary(tokens, current) ==
    IF is_at_end(tokens, current)
    THEN ParseErr("EOF: No more tokens while parsing a unary expression", current)
    ELSE LET line == peek(tokens, current).line
             token == peek(tokens, current).item
         IN  IF token.type \in {"Plus", "Minus"}
             THEN unary_node(token, line, unary(tokens, current + 1))
             ELSE IF is_operator(token)
             THEN unary_operator(token, line, primary(tokens, current + 1))
             ELSE primary(tokens, current)

\* the method a level calls for its operands
NextLevel(name, tokens, current) ==
    CASE name = "logical_or" -> logical_and(tokens, current)
      [] name = "logical_and" -> equality(tokens, current)
      [] name = "equality" -> comparison(tokens, current)
      [] name = "comparison" -> addition(tokens, current)
      [] name = "addition" -> multiplication(tokens, current)
      [] name = "multiplication" -> unary(tokens, current)

\* the Binary / Logical node of the two macros, on the line of its left operand
OperatorNode(name, left, token, right) ==
    IF ~right.ok THEN right
    ELSE ParseOk(IF name \in {"logical_or", "logical_and"}
                 THEN Logical(left.val, token, right.val, left.val.line)
                 ELSE Binary(left.val, token, right.val, left.val.line),
                 right.cur)

\* the `while let Some(token_meta) = self.peek()` loop of binary_expression_parser!
\* and logical_expression_parser!
OperatorLoop(name, tokens, expr) ==
    IF ~expr.ok THEN expr
    ELSE IF \/ is_at_end(tokens, expr.cur)
            \/ peek(tokens, expr.cur).item.type \notin Operators(name)
    THEN expr
    ELSE OperatorLoop(name, tokens,
                      OperatorNode(name, expr, peek(tokens, expr.cur).item,
                                   NextLevel(name, tokens, expr.cur + 1)))

\* the body the two macros expand to
binary_expression_parser(name, tokens, current) ==
    OperatorLoop(name, tokens, NextLevel(name, tokens, current))

multiplication(tokens, current) == binary_expression_parser("multiplication", tokens, current)
addition(tokens, current) == binary_expression_parser("addition", tokens, current)
comparison(tokens, current) == binary_expression_parser("comparison", tokens, current)
equality(tokens, current) == binary_expression_parser("equality", tokens, current)
logical_and(tokens, current) == binary_expression_parser("logical_and", tokens, current)
logical_or(tokens, current) == binary_expression_parser("logical_or", tokens, current)

\* ternary: the node, once the third operand is parsed
ternary_node(first, when_true, line, when_false) ==
    IF ~when_false.ok THEN when_false
    ELSE ParseOk(Ternary(first.val, when_true.val, when_false.val, line), when_false.cur)

\* ternary: the ':' after the second operand; line and token are those of the '?'
ternary_colon(tokens, first, line, token, when_true) ==
    IF ~when_true.ok THEN when_true
    ELSE IF is_at_end(tokens, when_true.cur)
    THEN ParseErr("EOF: Expected ':' but got EOF", when_true.cur)
    ELSE IF peek(tokens, when_true.cur).item.type # "Colon"
    THEN ParseErr("Line " \o ToString(line) \o ": Expected ':' but got "
                     \o TokenDisplay(token), when_true.cur)
    ELSE ternary_node(first, when_true, line, logical_or(tokens, when_true.cur + 1))

\* ternary: the '?' after the first operand, if there is one
ternary_question(tokens, first) ==
    IF ~first.ok THEN first
    ELSE IF ~match_head(tokens, first.cur, "Question") THEN first
    ELSE ternary_colon(tokens, first, peek(tokens, first.cur).line,
                       peek(tokens, first.cur).item, logical_or(tokens, first.cur + 1))

ternary(tokens, current) == ternary_question(tokens, logical_or(tokens, current))

\* assigment: with the right-hand side parsed, the target is looked at
assigment_target(lhs, line, rhs) ==
    IF ~rhs.ok THEN rhs
    ELSE IF lhs.val.node = "Variable"
    THEN ParseOk(Assignment(lhs.val.name, rhs.val, lhs.val.line), rhs.cur)
    ELSE ParseErr("Line " \o ToString(line) \o ": Invalid assignment target: "
                     \o ExpressionDebug(lhs.val), rhs.cur)

\* a method that looks at the target before it parses the right-hand side, for
\* comparison
assigment_equal_target_first(tokens, lhs) ==
    IF ~lhs.ok THEN lhs
    ELSE IF ~match_head(tokens, lhs.cur, "Equal") THEN lhs
    ELSE IF lhs.val.node # "Variable"
    THEN ParseErr("Line " \o ToString(peek(tokens, lhs.cur).line)
                     \o ": Invalid assignment target: " \o ExpressionDebug(lhs.val),
                  lhs.cur + 1)
    ELSE assigment_target(lhs, peek(tokens, lhs.cur).line, assigment(tokens, lhs.cur + 1))

\* assigment: the '=' after the left-hand side, if there is one
assigment_equal(tokens, lhs) ==
    IF ~lhs.ok THEN lhs
    ELSE IF ~match_head(tokens, lhs.cur, "Equal") THEN lhs
    ELSE assigment_target(lhs, peek(tokens, lhs.cur).line, assigment(tokens, lhs.cur + 1))

\* assignment := <id> = <assignment> | <ternary>
assigment(tokens, current) == assigment_equal(tokens, ternary(tokens, current))

\* expression := <assignment>
expression(tokens, current) == assigment(tokens, current)

\* Parser::synchronize: the cursor after skipping to the next statement
RECURSIVE SynchronizeLoop(_, _)
SynchronizeLoop(tokens, current) ==
    IF is_at_end(tokens, current) THEN current
    ELSE IF peek(tokens, current).item.type
              \in {"Class", "Fun", "Var", "For", "If", "While", "Print", "Return"}
    THEN current
    ELSE IF peek(tokens, current).item.type = "Semicolon" THEN current + 1
    ELSE SynchronizeLoop(tokens, current + 1)

synchronize(tokens, current) == SynchronizeLoop(tokens, current + 1)

\* `self.expression()?` after the step that returned r
ExpressionAfter(tokens, r) == IF ~r.ok THEN r ELSE expression(tokens, r.cur)

print_statement_node(e) ==
    IF ~e.ok THEN e ELSE ParseOk(PrintStatement(e.val, e.val.line), e.cur)

\* print_statement := print <expression>
print_statement(tokens, current) ==
    print_statement_node(
        Expect(tokens, ExpressionAfter(tokens, Start(tokens, current, "Print")), "Semicolon"))

expression_statement_node(e) ==
    IF ~e.ok THEN e ELSE ParseOk(ExpressionStatement(e.val, e.val.line), e.cur)

\* expression_statement := <expression>;
expression_statement(tokens, current) ==
    expression_statement_node(Expect(tokens, expression(tokens, current), "Semicolon"))

var_declaration_node(identifier, e) ==
    IF ~e.ok THEN e
    ELSE ParseOk(Declaration(identifier.item.lit.v, e.val, identifier.line), e.cur)

\* var_declaration, after `var`: the identifier, '=', the initializer and ';'
var_declaration_name(tokens, v) ==
    IF ~v.ok THEN v
    ELSE IF is_at_end(tokens, v.cur)
    THEN ParseErr("EOF: Expected identifier but got EOF", v.cur)
    ELSE IF ~(/\ peek(tokens, v.cur).item.type = "Literal"
              /\ peek(tokens, v.cur).item.lit.t = "Identifier")
    THEN ParseErr("EOF: Expected identifier but got "
                     \o TokenDisplay(peek(tokens, v.cur).item), v.cur)
    ELSE var_declaration_node(
            peek(tokens, v.cur),
            Expect(tokens,
                   ExpressionAfter(tokens, Start(tokens, v.cur + 1, "Equal")),
                   "Semicolon"))

\* var_declaration := var <id> = <expression>;
var_declaration(tokens, current) ==
    var_declaration_name(tokens, Start(tokens, current, "Var"))

\* the update first and the body after it, for comparison
LoopBodyIncrementFirst(for_body, increment) ==
    IF increment.node # "None"
    THEN Block(<<increment, for_body>>, increment.line)
    ELSE for_body

\* for_statement: if the for loop has an increment/update section, it is put at the
\* end of the while loop body
LoopBody(for_body, increment) ==
    IF increment.node # "None"
    THEN Block(<<for_body, increment>>, increment.line)
    ELSE for_body

RECURSIVE declaration(_, _), statement(_, _), while_statement(_, _), for_statement(_, _),
          if_statement(_, _), block(_, _), BlockLoop(_, _)

while_node(line, test, body) ==
    IF ~body.ok THEN body ELSE ParseOk(WhileStatement(test.val, body.val, line), body.cur)

while_body(tokens, line, test) ==
    IF ~test.ok THEN test ELSE while_node(line, test, statement(tokens, test.cur))

while_test(tokens, w) ==
    IF ~w.ok THEN w
    ELSE while_body(tokens, w.val,
                    Expect(tokens,
                           ExpressionAfter(tokens, Start(tokens, w.cur, "LeftParen")),
                           "RightParen"))

\* while_statement := while '(' <expression> ')' <statement>
while_statement(tokens, current) == while_test(tokens, Start(tokens, current, "While"))

\* for_statement, lines 263-289: the body, and the Block of the initializer (if
\* any) and the while
for_node(line, initializer, condition, increment, for_body) ==
    IF ~for_body.ok THEN for_body
    ELSE ParseOk(Block((IF initializer.node # "None" THEN <<initializer>> ELSE <<>>)
                          \o <<WhileStatement(condition,
                                              LoopBody(for_body.val, increment), line)>>,
                       line),
                 for_body.cur)

\* for_statement, lines 251-260: the increment, unless ')' is next
for_increment_clause(tokens, current) ==
    IF ~match_head(tokens, current, "RightParen")
    THEN expression_statement_node(expression(tokens, current))
    ELSE ParseOk(NoStatement, current)

\* for_statement, lines 238-248: the condition, unless ';' is next
for_condition_clause(tokens, line, current) ==
    IF ~match_head(tokens, current, "Semicolon")
    THEN expression(tokens, current)
    ELSE ParseOk(LiteralExpr(True, line), current)

\* for_statement, lines 229-235: the initializer, unless ';' is next
for_initializer_clause(tokens, lp) ==
    IF ~lp.ok THEN lp
    ELSE IF match_head(tokens, lp.cur, "Semicolon") THEN ParseOk(NoStatement, lp.cur)
    ELSE IF match_head(tokens, lp.cur, "Var") THEN var_declaration(tokens, lp.cur)
    ELSE expression_statement(tokens, lp.cur)

for_body(tokens, line, initializer, condition, increment) ==
    IF ~increment.ok THEN increment
    ELSE for_node(line, initializer, condition, increment.val,
                  statement(tokens, increment.cur))

for_increment(tokens, line, initializer, condition) ==
    IF ~condition.ok THEN condition
    ELSE for_body(tokens, line, initializer, condition.val,
                  Skip(tokens, for_increment_clause(tokens, condition.cur), "RightParen"))

for_condition(tokens, line, initializer) ==
    IF ~initializer.ok THEN initializer
    ELSE for_increment(tokens, line, initializer.val,
                       Skip(tokens, for_condition_clause(tokens, line, initializer.cur),
                            "Semicolon"))

for_initializer(tokens, f) ==
    IF ~f.ok THEN f
    ELSE for_condition(tokens, f.val,
                       Skip(tokens,
                            for_initializer_clause(tokens, Start(tokens, f.cur, "LeftParen")),
                            "Semicolon"))

\* for_statement := for '(' ( <expression> | <var_declaration> )?; <expression>?;
\* <expression>? ')' <statement>.  The three consume! of the header that follow
\* the initializer, the condition and the increment drop their Result.
for_statement(tokens, current) == for_initializer(tokens, Start(tokens, current, "For"))

if_node(line, test, when_true, when_false) ==
    IF ~when_false.ok THEN when_false
    ELSE ParseOk(IfStatement(test.val, when_true.val, when_false.val, line), when_false.cur)

if_else(tokens, line, test, when_true) ==
    IF ~when_true.ok THEN when_true
    ELSE IF match_head(tokens, when_true.cur, "Else")
    THEN if_node(line, test, when_true, statement(tokens, when_true.cur + 1))
    ELSE ParseOk(IfStatement(test.val, when_true.val, NoStatement, line), when_true.cur)

if_then(tokens, line, test) ==
    IF ~test.ok THEN test ELSE if_else(tokens, line, test, statement(tokens, test.cur))

if_test(tokens, i) ==
    IF ~i.ok THEN i
    ELSE if_then(tokens, i.val,
                 Expect(tokens,
                        ExpressionAfter(tokens, Start(tokens, i.cur, "LeftParen")),
                        "RightParen"))

\* if_statement := if '(' <expression> ')' statement ( <else> statement )?
if_statement(tokens, current) == if_test(tokens, Start(tokens, current, "If"))

\* statements.push(self.declaration()?)
Push(statements, d) ==
    IF ~d.ok THEN d ELSE ParseOk(Append(statements.val, d.val), d.cur)

\* the `while !match_head!(self, Token::RightBrace) && !self.is_at_end()` loop
BlockLoop(tokens, statements) ==
    IF ~statements.ok THEN statements
    ELSE IF \/ match_head(tokens, statements.cur, "RightBrace")
            \/ is_at_end(tokens, statements.cur)
    THEN statements
    ELSE BlockLoop(tokens, Push(statements, declaration(tokens, statements.cur)))

block_node(start_line, statements) ==
    IF ~statements.ok THEN statements
    ELSE ParseOk(Block(statements.val, start_line), statements.cur)

block_statements(tokens, lb) ==
    IF ~lb.ok THEN lb
    ELSE block_node(lb.val,
                    Expect(tokens, BlockLoop(tokens, ParseOk(<<>>, lb.cur)), "RightBrace"))

\* block := { <declaration>* }
block(tokens, current) == block_statements(tokens, Start(tokens, current, "LeftBrace"))

\* statement := <print_statement> | <expression_statement> | <block> | <if_statement>
statement(tokens, current) ==
    IF match_head(tokens, current, "Print") THEN print_statement(tokens, current)
    ELSE IF match_head(tokens, current, "LeftBrace") THEN block(tokens, current)
    ELSE IF match_head(tokens, current, "If") THEN if_statement(tokens, current)
    ELSE IF match_head(tokens, current, "While") THEN while_statement(tokens, current)
    ELSE IF match_head(tokens, current, "For") THEN for_statement(tokens, current)
    ELSE expression_statement(tokens, current)

\* declaration: an Err calls synchronize before it is returned
declaration_result(tokens, d) ==
    IF ~d.ok THEN ParseErr(d.err, synchronize(tokens, d.cur)) ELSE d

\* the `let result = ..` of declaration
declared(tokens, current) ==
    IF match_head(tokens, current, "Var")
    THEN var_declaration(tokens, current)
    ELSE statement(tokens, current)

\* declaration := <var_declaration> | <statement>
declaration(tokens, current) == declaration_result(tokens, declared(tokens, current))

\* a loop that goes on after an Err and returns the statements that parsed, for
\* comparison
RECURSIVE ParseLoopRecovering(_, _, _)
ParseLoopRecovering(tokens, statements, current) ==
    IF is_at_end(tokens, current) THEN ParseOk(statements, current)
    ELSE IF declaration(tokens, current).ok
    THEN ParseLoopRecovering(tokens, Append(statements, declaration(tokens, current).val),
                             declaration(tokens, current).cur)
    ELSE ParseLoopRecovering(tokens, statements, declaration(tokens, current).cur)

parse_recovering(tokens) == ParseLoopRecovering(tokens, <<>>, 0)

\* the `while !self.is_at_end()` loop of Parser::parse
RECURSIVE ParseLoop(_, _)
ParseLoop(tokens, statements) ==
    IF ~statements.ok THEN statements
    ELSE IF is_at_end(tokens, statements.cur) THEN statements
    ELSE ParseLoop(tokens, Push(statements, declaration(tokens, statements.cur)))

\* Parser::new(tokens).parse()
parse(tokens) == ParseLoop(tokens, ParseOk(<<>>, 0))

top_level_node(expr) ==
    IF ~expr.ok THEN expr ELSE ParseOk(<<PrintStatement(expr.val, 1)>>, expr.cur)

\* Parser::reset, then Parser::parse_top_level_expression
parse_top_level_expression(tokens) == top_level_node(expression(tokens, 0))

(***************************************************************************)
(* scanner.rs, at the grain of lexemes: a source is the sequence of the    *)
(* runs of characters that one call of next_token consumes ("var", "a",    *)
(* "=", "1", ";", a line break "\n", ...).                                  *)
(***************************************************************************)
RESERVED_WORDS ==
    "and" :> Tok("And") @@ "class" :> Tok("Class") @@ "else" :> Tok("Else")
    @@ "false" :> LiteralTok(False) @@ "fun" :> Tok("Fun") @@ "for" :> Tok("For")
    @@ "if" :> Tok("If") @@ "nil" :> LiteralTok(Nil) @@ "or" :> Tok("Or")
    @@ "print" :> Tok("Print") @@ "return" :> Tok("Return") @@ "super" :> Tok("Super")
    @@ "this" :> Tok("This") @@ "true" :> LiteralTok(True) @@ "var" :> Tok("Var")
    @@ "while" :> Tok("While")

\* the one- and two-character tokens of next_token
Punctuation ==
    "(" :> "LeftParen" @@ ")" :> "RightParen" @@ "{" :> "LeftBrace" @@ "}" :> "RightBrace"
    @@ "," :> "Comma" @@ "." :> "Dot" @@ "-" :> "Minus" @@ "+" :> "Plus"
    @@ ";" :> "Semicolon" @@ "*" :> "Star" @@ "?" :> "Question" @@ ":" :> "Colon"
    @@ "!" :> "Bang" @@ "!=" :> "BangEqual" @@ "=" :> "Equal" @@ "==" :> "EqualEqual"
    @@ "<" :> "Lesser" @@ "<=" :> "LesserEqual" @@ ">" :> "Greater"
    @@ ">=" :> "GreaterEqual" @@ "/" :> "Slash"

\* match_numeric on a run of digits: number_str.parse::<i64>()
Digits ==
    "0" :> 0 @@ "1" :> 1 @@ "2" :> 2 @@ "3" :> 3 @@ "4" :> 4 @@ "5" :> 5 @@ "6" :> 6
    @@ "7" :> 7 @@ "8" :> 8 @@ "9" :> 9

\* match_numeric on digits, a '.' and digits: number_str.parse::<f64>()
Decimals == "0.0" :> <<0, 1>> @@ "1.5" :> <<3, 2>> @@ "2.0" :> <<2, 1>>

\* match_string: the characters between the two quotes
Quoted == "\"\"" :> "" @@ "\"ab\"" :> "ab" @@ "\"1\"" :> "1"

\* the lexemes that start with a letter (can_start_identifier) and are not reserved
Words == {"a", "b", "c", "i", "q", "x"}

ScannerError(message, line_no) == [message |-> message, line_no |-> line_no]

\* {:?} of a LoxError::ScannerError
ScannerErrorDebug(e) ==
    "ScannerError(ErrorData { message: \"" \o e.message \o "\", line_no: "
       \o ToString(e.line_no) \o ", location: \"\" })"

\* Scanner::next_token on one lexeme that is not white space
next_token(lexeme, line_no) ==
    IF lexeme \in DOMAIN Punctuation
    THEN [ok |-> TRUE, val |-> TokenMeta(Tok(Punctuation[lexeme]), line_no)]
    ELSE IF lexeme \in DOMAIN Digits
    THEN [ok |-> TRUE, val |-> TokenMeta(LiteralTok(Integer(Digits[lexeme])), line_no)]
    ELSE IF lexeme = ToString(MaxInteger)
    THEN [ok |-> TRUE, val |-> TokenMeta(LiteralTok(Integer(MaxInteger)), line_no)]
    ELSE IF lexeme = ToString(MaxInteger + 1)
    THEN [ok |-> FALSE,
          val |-> ScannerError("Could not parse integer from " \o lexeme, line_no)]
    ELSE IF lexeme \in DOMAIN Decimals
    THEN [ok |-> TRUE, val |-> TokenMeta(LiteralTok(Number(Decimals[lexeme])), line_no)]
    ELSE IF lexeme \in DOMAIN Quoted
    THEN [ok |-> TRUE, val |-> TokenMeta(LiteralTok(StringT(Quoted[lexeme])), line_no)]
    ELSE IF lexeme \in DOMAIN RESERVED_WORDS
    THEN [ok |-> TRUE, val |-> TokenMeta(RESERVED_WORDS[lexeme], line_no)]
    ELSE IF lexeme \in Words
    THEN [ok |-> TRUE, val |-> TokenMeta(LiteralTok(Identifier(lexeme)), line_no)]
    ELSE [ok |-> FALSE,
          val |-> ScannerError("Unidentified character " \o lexeme, line_no)]

\* the loop of Scanner::scan_tokens; next_char counts the lines
RECURSIVE ScanLoop(_, _, _, _, _)
ScanLoop(source, current, line_no, tokens, errors) ==
    IF current > Len(source)
    THEN [ok |-> errors = <<>>, tokens |-> tokens, errors |-> errors]
    ELSE IF source[current] = "\n"
    THEN ScanLoop(source, current + 1, line_no + 1, tokens, errors)
    ELSE LET r == next_token(source[current], line_no)
         IN  IF r.ok
             THEN ScanLoop(source, current + 1, line_no, Append(tokens, r.val), errors)
             ELSE ScanLoop(source, current + 1, line_no, tokens, Append(errors, r.val))

scan_tokens(source) == ScanLoop(source, 1, 1, <<>>, <<>>)

(***************************************************************************)
(* scanner.rs, at the grain of characters: a source is a sequence of       *)
(* one-character strings, current the 0-based cursor of the Scanner.       *)
(***************************************************************************)
\* c.is_ascii_digit(), and can_start_identifier(c) for the lower-case letters
AsciiDigits == DOMAIN Digits
Letters ==
    {"a", "b", "c", "d", "e", "f", "g", "h", "i", "j", "k", "l", "m", "n", "o", "p", "q",
     "r", "s", "t", "u", "v", "w", "x", "y", "z", "_"}

\* what next_token returns, and the Scanner it leaves: Some(Ok(token)),
\* Some(Err(error)) or None
Scanned(ok, val, current, line_no) ==
    [some |-> TRUE, ok |-> ok, val |-> val, current |-> current, line_no |-> line_no]
NoToken(current, line_no) ==
    [some |-> FALSE, ok |-> FALSE, val |-> NoValue, current |-> current, line_no |-> line_no]

\* next_char: a '\n' consumed adds one to line_no
LineAfter(line_no, c) == IF c = "\n" THEN line_no + 1 ELSE line_no

\* the characters src[start..end] as a String
RECURSIVE Slice(_, _, _)
Slice(chars, start, end) ==
    IF start >= end THEN "" ELSE Slice(chars, start, end - 1) \o chars[end]

\* find_next, called with the cursor on the second '/' of a comment: the index of the
\* next c after it, or src.len()
RECURSIVE FindNext(_, _, _)
FindNext(chars, curr, c) ==
    IF curr >= Len(chars) THEN Len(chars)
    ELSE IF chars[curr + 1] = c THEN curr
    ELSE FindNext(chars, curr + 1, c)

\* the arms of `match c` of an escape that push a character
Escapes ==
    "t" :> "\t" @@ "\\" :> "\\" @@ "n" :> "\n" @@ "r" :> "\r" @@ "'" :> "'" @@ "\"" :> "\""

\* the loop of match_string. The arm '\n' of an escape is `continue`: the
\* assignment is_escape = false after the match is not reached
RECURSIVE MatchStringLoop(_, _, _, _, _, _)
MatchStringLoop(chars, current, line_no, start_line, string, is_escape) ==
    IF current >= Len(chars)
    THEN Scanned(FALSE, ScannerError("Unterminated string literal", line_no), current, line_no)
    ELSE IF is_escape
    THEN (IF chars[current + 1] \in DOMAIN Escapes
          THEN MatchStringLoop(chars, current + 1, line_no, start_line,
                               string \o Escapes[chars[current + 1]], FALSE)
          ELSE IF chars[current + 1] = "\n"
          THEN MatchStringLoop(chars, current + 1, line_no + 1, start_line, string, TRUE)
          ELSE Scanned(FALSE,
                       ScannerError("Invalid escape char: " \o chars[current + 1], line_no),
                       current + 1, line_no))
    ELSE IF chars[current + 1] = "\\"
    THEN MatchStringLoop(chars, current + 1, line_no, start_line, string, TRUE)
    ELSE IF chars[current + 1] = "\""
    THEN Scanned(TRUE, TokenMeta(LiteralTok(StringT(string)), start_line),
                 current + 1, line_no)
    ELSE MatchStringLoop(chars, current + 1, LineAfter(line_no, chars[current + 1]),
                         start_line, string \o chars[current + 1], FALSE)

\* Scanner::match_string, the opening '"' consumed
match_string(chars, current, line_no) ==
    MatchStringLoop(chars, current, line_no, line_no, "", FALSE)

\* `while let Some(c) = self.peek_char()` over digits: the cursor after them
RECURSIVE DigitRun(_, _)
DigitRun(chars, current) ==
    IF current < Len(chars) /\ chars[current + 1] \in AsciiDigits
    THEN DigitRun(chars, current + 1)
    ELSE current

\* the decimal value of the digits src[start..end]
RECURSIVE ParseDigits(_, _, _)
ParseDigits(chars, start, end) ==
    IF start >= end THEN 0
    ELSE ParseDigits(chars, start, end - 1) * 10 + Digits[chars[end]]

\* number_str.parse() of match_numeric: an i64 that is in range, or an f64
ParseNumber(chars, start, point, end, line_no) ==
    IF point = end
    THEN (IF ParseDigits(chars, start, end) > MaxInteger
          THEN Scanned(FALSE,
                       ScannerError("Could not parse integer from " \o Slice(chars, start, end),
                                    line_no),
                       end, line_no)
          ELSE Scanned(TRUE,
                       TokenMeta(LiteralTok(Integer(ParseDigits(chars, start, end))), line_no),
                       end, line_no))
    ELSE Scanned(TRUE,
                 TokenMeta(LiteralTok(Number(Frac(
                     ParseDigits(chars, start, point) * (10 ^ (end - point - 1))
                        + ParseDigits(chars, point + 1, end),
                     10 ^ (end - point - 1)))), line_no),
                 end, line_no)

\* match_numeric with the digits before the '.' consumed up to point
MatchFraction(chars, start, point, line_no) ==
    IF /\ point + 1 < Len(chars)
       /\ chars[point + 1] = "."
       /\ chars[point + 2] \in AsciiDigits
    THEN ParseNumber(chars, start, point, DigitRun(chars, point + 1), line_no)
    ELSE ParseNumber(chars, start, point, point, line_no)

\* Scanner::match_numeric, the first digit consumed
match_numeric(chars, current, line_no) ==
    MatchFraction(chars, current - 1, DigitRun(chars, current), line_no)

\* `while let Some(c) = self.peek_char()` over is_identifier_char
RECURSIVE IdentifierRun(_, _)
IdentifierRun(chars, current) ==
    IF current < Len(chars) /\ chars[current + 1] \in Letters \cup AsciiDigits
    THEN IdentifierRun(chars, current + 1)
    ELSE current

MatchWord(word, current, line_no) ==
    Scanned(TRUE,
            TokenMeta(IF word \in DOMAIN RESERVED_WORDS
                      THEN RESERVED_WORDS[word]
                      ELSE LiteralTok(Identifier(word)), line_no),
            current, line_no)

\* Scanner::match_identifier, the first character consumed
match_identifier(chars, current, line_no) ==
    MatchWord(Slice(chars, current - 1, IdentifierRun(chars, current)),
              IdentifierRun(chars, current), line_no)

\* the loop of the arm '\r' | ' ' | '\t'
RECURSIVE BlankRun(_, _)
BlankRun(chars, current) ==
    IF current < Len(chars) /\ chars[current + 1] \in {"\r", " ", "\t"}
    THEN BlankRun(chars, current + 1)
    ELSE current

\* Scanner::next_token on characters; c is the character next_char returns and ahead
\* the one peek_char sees after it ("" at the end)
RECURSIVE NextToken(_, _, _)
NextTokenOn(chars, current, line_no, c, ahead) ==
    IF c \in {"!", "=", "<", ">"}
    THEN (IF ahead = "="
          THEN Scanned(TRUE, TokenMeta(Tok(Punctuation[c \o "="]), line_no),
                       current + 2, line_no)
          ELSE Scanned(TRUE, TokenMeta(Tok(Punctuation[c]), line_no), current + 1, line_no))
    ELSE IF c = "/" /\ ahead = "/"
    THEN NextToken(chars, FindNext(chars, current + 2, "\n"), line_no)
    ELSE IF c \in DOMAIN Punctuation
    THEN Scanned(TRUE, TokenMeta(Tok(Punctuation[c]), line_no), current + 1, line_no)
    ELSE IF c \in {"\r", " ", "\t"}
    THEN NextToken(chars, BlankRun(chars, current + 1), line_no)
    ELSE IF c = "\n" THEN NextToken(chars, current + 1, line_no + 1)
    ELSE IF c = "\"" THEN match_string(chars, current + 1, line_no)
    ELSE IF c \in AsciiDigits THEN match_numeric(chars, current + 1, line_no)
    ELSE IF c \in Letters THEN match_identifier(chars, current + 1, line_no)
    ELSE Scanned(FALSE, ScannerError("Unidentified character " \o c, line_no),
                 current + 1, line_no)

NextToken(chars, current, line_no) ==
    IF current >= Len(chars) THEN NoToken(current, line_no)
    ELSE NextTokenOn(chars, current, line_no, chars[current + 1],
                     IF current + 1 < Len(chars) THEN chars[current + 2] ELSE "")

\* for comparison: a scan that returns at its first error
RECURSIVE ScanTokensLoopFailFast(_, _, _, _)
ScanTokensLoopFailFast(chars, r, tokens, errors) ==
    IF ~r.some \/ errors # <<>>
    THEN [ok |-> errors = <<>>, tokens |-> IF errors = <<>> THEN tokens ELSE <<>>,
          errors |-> errors, current |-> r.current]
    ELSE ScanTokensLoopFailFast(chars, NextToken(chars, r.current, r.line_no),
                                IF r.ok THEN Append(tokens, r.val) ELSE tokens,
                                IF r.ok THEN errors ELSE Append(errors, r.val))

\* the loop of Scanner::scan_tokens, r what next_token returned last, and its
\* Result: Ok(tokens) or Err(errors), with the cursor the Scanner is left at
RECURSIVE ScanTokensLoop(_, _, _, _)
ScanTokensLoop(chars, r, tokens, errors) ==
    IF ~r.some
    THEN [ok |-> errors = <<>>, tokens |-> IF errors = <<>> THEN tokens ELSE <<>>,
          errors |-> errors, current |-> r.current]
    ELSE ScanTokensLoop(chars, NextToken(chars, r.current, r.line_no),
                        IF r.ok THEN Append(tokens, r.val) ELSE tokens,
                        IF r.ok THEN errors ELSE Append(errors, r.val))

\* Scanner::new(src).scan_tokens()
ScanTokens(chars) == ScanTokensLoop(chars, NextToken(chars, 0, 1), <<>>, <<>>)

(***************************************************************************)
(* main.rs: run.                                                           *)
(***************************************************************************)
RECURSIVE FailedToScan(_, _)
\* the err_string run builds from the scanner's errors
FailedToScan(err_string, errors) ==
    IF errors = <<>> THEN err_string
    ELSE FailedToScan(err_string \o "\n" \o ScannerErrorDebug(Head(errors)), Tail(errors))

\* run, with the program parsed: Ok(program), or the fallback of the REPL
FrontEndProgram(tokens, program, allow_top_level_expr) ==
    IF program.ok
    THEN [stage |-> "parse", ok |-> TRUE, val |-> program.val, err |-> ""]
    ELSE IF allow_top_level_expr /\ parse_top_level_expression(tokens).ok
    THEN [stage |-> "top", ok |-> TRUE,
          val |-> parse_top_level_expression(tokens).val, err |-> ""]
    ELSE [stage |-> "parse", ok |-> FALSE, val |-> <<>>, err |-> program.err]

FrontEndTokens(scanned, allow_top_level_expr) ==
    IF ~scanned.ok
    THEN [stage |-> "scan", ok |-> FALSE, val |-> <<>>,
          err |-> FailedToScan("Failed to scan:\n", scanned.errors)]
    ELSE FrontEndProgram(scanned.tokens, parse(scanned.tokens), allow_top_level_expr)

\* the front end of run: scan, parse and, when the parse failed and
\* allow_top_level_expr is set, reset and parse_top_level_expression
FrontEnd(source, allow_top_level_expr) ==
    FrontEndTokens(scan_tokens(source), allow_top_level_expr)

\* an interpreter made anew for the call, for comparison
FreshInterpreter(E) == EnvNew

\* the interpreter run is given: the caller's, by &mut
SameInterpreter(E) == E

\* run, once the front end has returned program: interpret is entered when it is Ok
RunProgram(source, program) ==
    /\ status \in {"idle", "done"}
    /\ Len(runs) < MaxRuns
    /\ src' = source
    /\ parsed' = program
    /\ stack' = SameInterpreter(Env).stack
    /\ heap' = SameInterpreter(Env).heap
    /\ out' = <<>>
    /\ steps' = 0
    /\ errdepth' = 0
    /\ IF program.ok
       THEN /\ kont' = <<InterpretFrame(program.val)>>
            /\ status' = "running"
            /\ result' = ResultOk
            /\ runs' = Append(runs, "interpret")
       ELSE /\ kont' = <<>>
            /\ status' = "done"
            /\ result' = ResultErr(program.err)
            /\ runs' = Append(runs, program.stage)
    /\ UNCHANGED ret

\* run(src, interpeter, allow_top_level_expr) is called
Run(source, allow_top_level_expr) ==
    RunProgram(source, FrontEnd(source, allow_top_level_expr))

(***************************************************************************)
(* Spec: one call of interpret on a fresh Interpreter, for every program   *)
(* of at most MaxSize statements over a small alphabet.                    *)
(***************************************************************************)
VarA == Variable("a", 1)
Simple ==
    {Declaration("a", LiteralExpr(Integer(1), 1), 1),
     ExpressionStatement(
        Assignment("a", Binary(VarA, Tok("Plus"), LiteralExpr(Integer(1), 1), 1), 1), 1),
     PrintStatement(VarA, 1),
     PrintStatement(Variable("c", 1), 1)}
Tests == {Binary(VarA, Tok("Lesser"), LiteralExpr(Integer(2), 1), 1), LiteralExpr(Nil, 1)}

RECURSIVE StatementsOfSize(_), ListsOfSize(_)
StatementsOfSize(n) ==
    IF n = 0 THEN {}
    ELSE IF n = 1 THEN Simple \cup {Block(<<>>, 1)}
    ELSE {Block(l, 1) : l \in ListsOfSize(n - 1)}
         \cup {IfStatement(t, s, NoStatement, 1) : t \in Tests, s \in StatementsOfSize(n - 1)}
         \cup UNION {{IfStatement(t, s, e, 1) :
                        t \in Tests, s \in StatementsOfSize(k),
                        e \in StatementsOfSize(n - 1 - k)} : k \in 1..(n - 2)}
         \cup {WhileStatement(t, s, 1) : t \in Tests, s \in StatementsOfSize(n - 1)}
ListsOfSize(n) ==
    IF n = 0 THEN {<<>>}
    ELSE UNION {{<<s>> \o l : s \in StatementsOfSize(k), l \in ListsOfSize(n - k)} : k \in 1..n}

Programs == UNION {ListsOfSize(n) : n \in 0..MaxSize}

Init ==
    /\ stack = EnvNew.stack
    /\ heap = EnvNew.heap
    /\ ret = RetNew
    /\ kont = <<>>
    /\ status = "idle"
    /\ result = ResultOk
    /\ out = <<>>
    /\ steps = 0
    /\ errdepth = 0
    /\ src = <<>>
    /\ parsed = NotParsed
    /\ runs = <<>>

Next ==
    \/ \E statements \in Programs : Interpret(statements)
    \/ Execute

(***************************************************************************)
(* SpecEnv: the Environment driven through its public operations.          *)
(***************************************************************************)
Names == {"a", "b"}
Values == {Integer(1), Integer(2)}

Lines == 1..2

interp == <<kont, status, result, out, steps, errdepth, src, parsed, runs>>

\* whether the slot that name resolves to is also the slot of another binding
SlotShared(E, name) ==
    /\ get(E, name) # NoRef
    /\ \E i \in DOMAIN E.stack : \E n \in DOMAIN E.stack[i] :
          /\ E.stack[i][n] = get(E, name)
          /\ <<i, n>> # <<ScopeOf(E, name), name>>

InitEnv ==
    /\ stack = EnvNew.stack
    /\ heap = EnvNew.heap
    /\ ret = RetNew
    /\ kont = <<>>
    /\ status = "idle"
    /\ result = ResultOk
    /\ out = <<>>
    /\ steps = 0
    /\ errdepth = 0
    /\ src = <<>>
    /\ parsed = NotParsed
    /\ runs = <<>>

Fork ==
    /\ Len(stack) <= MaxForks
    /\ SetEnv(fork(Env))
    /\ ret' = Ret("fork", "", NoValue, 0, FALSE, TRUE, NoValue, "")
    /\ UNCHANGED interp

Join ==
    /\ SetEnv(join(Env).env)
    /\ ret' = Ret("join", "", NoValue, 0, FALSE, join(Env).ok, NoValue, join(Env).err)
    /\ UNCHANGED interp

Define(name, value) ==
    /\ SetEnv(define(Env, name, value))
    /\ ret' = Ret("define", name, value, 0, FALSE, TRUE, NoValue, "")
    /\ UNCHANGED interp

Get(name) ==
    /\ UNCHANGED <<stack, heap>>
    /\ ret' = Ret("get", name, NoValue, 0, FALSE, get(Env, name) # NoRef, ValueOf(Env, name), "")
    /\ UNCHANGED interp

Assign(name, value) ==
    LET R == assign(Env, name, value)
    IN  /\ SetEnv(R.env)
        /\ ret' = Ret("assign", name, value, 0, SlotShared(Env, name),
                      R.ok, Deref(R.env, R.ref), R.err)
        /\ UNCHANGED interp

\* the interpreter evaluates `var name = from;`
EvaluateDeclaration(name, from, line) ==
    LET C == evaluate_statement(Env, Declaration(name, Variable(from, line), line), <<>>, <<>>)
    IN  /\ SetEnv(C.env)
        /\ ret' = Ret("declaration", name, ValueOf(Env, from), line, FALSE,
                      C.result.ok, NoValue, C.result.err)
        /\ UNCHANGED interp

\* the interpreter evaluates `name = from` and `name = <literal>`
EvaluateAssignment(name, value, line) ==
    LET V == evaluate_expression(Env, value)
        R == evaluate_expression(Env, Assignment(name, value, line))
    IN  /\ SetEnv(R.env)
        /\ ret' = Ret("assignment", name,
                      IF V.ok THEN as_ref(V.env, V.data) ELSE NoValue, line,
                      SlotShared(Env, name), R.ok,
                      IF R.ok THEN as_ref(R.env, R.data) ELSE NoValue, R.err)
        /\ UNCHANGED interp

NextEnv ==
    \/ Fork
    \/ Join
    \/ \E name \in Names, value \in Values : Define(name, value)
    \/ \E name \in Names : Get(name)
    \/ \E name \in Names, value \in Values : Assign(name, value)
    \/ \E name \in Names, from \in Names : EvaluateDeclaration(name, from, 1)
    \/ \E name \in Names, from \in Names, line \in Lines :
          EvaluateAssignment(name, Variable(from, line), line)

(***************************************************************************)
(* SpecParse: the front end applied to the sources of two families, the    *)
(* `for` statements with each part present or absent and the statements    *)
(* with an `=` after an expression.                                        *)
(***************************************************************************)
Breaks == {<<>>, <<"\n">>}

ForInits == {<<>>, <<"var", "i", "=", "0", ";">>, <<"i", "=", "0", ";">>}
ForConditions == {<<>>, <<"i", "<", "3">>}
ForUpdates == {<<>>, <<"i", "=", "i", "+", "1">>}
ForBodies == {<<"print", "i", ";">>, <<"{", "x", "=", "x", "+", "i", ";", "}">>}

\* for (I; C; U) B, an initializer bringing its own `;`
ForSource(I, C, U, B) ==
    <<"for", "(">> \o (IF I = <<>> THEN <<";">> ELSE I) \o C \o <<";">> \o U \o <<")">> \o B

ForSources ==
    {nl \o ForSource(I, C, U, B) :
        nl \in Breaks, I \in ForInits, C \in ForConditions, U \in ForUpdates, B \in ForBodies}

Prefixes == {<<>>, <<"print">>, <<"var", "x", "=">>}
Targets ==
    {<<"a">>, <<"1">>, <<"nil">>, <<"(", "a", ")">>, <<"1", "+", "2">>, <<"-", "a">>,
     <<"a", "or", "b">>, <<"a", "?", "1", ":", "2">>}
RightSides == {<<"2">>, <<"b">>, <<>>, <<"b", "=", "3">>, <<"2", "=", "3">>, <<"(", "2">>}

\* P L = R ; with a line break before or after the `=`
AssignSource(P, L, b1, b2, R) == P \o L \o b1 \o <<"=">> \o b2 \o R \o <<";">>

AssignSources ==
    {AssignSource(P, L, b1, b2, R) :
        P \in Prefixes, L \in Targets, b1 \in Breaks, b2 \in Breaks, R \in RightSides}

\* a `for` header without the `;` after its condition, and one without the `;`
\* after an expression initializer
NoConditionDelimiter(I, U, B) ==
    <<"for", "(">> \o (IF I = <<>> THEN <<";">> ELSE I) \o <<"i", "<", "3">>
        \o U \o <<")">> \o B
NoInitializerDelimiter(U, B) ==
    <<"for", "(", "i", "=", "0", "i", "<", "3", ";">> \o U \o <<")">> \o B

MissingDelimiterSources ==
    {nl \o NoConditionDelimiter(I, U, B) :
        nl \in Breaks, I \in ForInits, U \in ForUpdates, B \in ForBodies}
    \cup {nl \o NoInitializerDelimiter(U, B) :
            nl \in Breaks, U \in ForUpdates, B \in ForBodies}

\* one statement, with a line break before it or after its first token (for a
\* `for`, after the `;` of its absent condition)
Starts ==
    {<<<<"print">>, <<"1", ";">>>>,
     <<<<"var">>, <<"x", "=", "1", ";">>>>,
     <<<<"a">>, <<"?", "1", ":", "2", ";">>>>,
     <<<<"a">>, <<"+", "1", ";">>>>,
     <<<<"a">>, <<"or", "b", ";">>>>,
     <<<<"for", "(", ";", ";">>, <<"i", "=", "i", "+", "1", ")", "i", ";">>>>}
LineSources == {nl \o p[1] \o b \o p[2] : nl \in Breaks, b \in Breaks, p \in Starts}

ParseSources == ForSources \cup AssignSources \cup MissingDelimiterSources \cup LineSources

InitParse ==
    /\ stack = EnvNew.stack
    /\ heap = EnvNew.heap
    /\ ret = RetNew
    /\ kont = <<>>
    /\ status = "idle"
    /\ result = ResultOk
    /\ out = <<>>
    /\ steps = 0
    /\ errdepth = 0
    /\ src \in ParseSources
    /\ parsed = NotParsed
    /\ runs = <<>>

\* Scanner::new(src).scan_tokens(), then Parser::new(tokens).parse()
Parse ==
    /\ parsed.stage = "none"
    /\ parsed' = FrontEnd(src, FALSE)
    /\ UNCHANGED <<stack, heap, ret, kont, status, result, out, steps, errdepth, src, runs>>

NextParse == Parse

(***************************************************************************)
(* SpecFor: run_file on the programs `var x = 0; [var i = 7;]              *)
(* for (var i = 0; i < N; i = i + 1) B  T`, scanned, parsed and            *)
(* interpreted.                                                            *)
(***************************************************************************)
Outers == {<<>>, <<"var", "i", "=", "7", ";">>}
Limits == 0..3
LoopBodies ==
    {<<"{", "x", "=", "x", "+", "i", ";", "}">>, <<"x", "=", "x", "+", "i", ";">>,
     <<"print", "i", ";">>, <<"{", "print", "q", ";", "}">>}
Afters == {<<"print", "x", ";">>, <<"print", "i", ";">>}

LoopSource(O, N, B, T) ==
    <<"var", "x", "=", "0", ";">> \o O
       \o <<"for", "(", "var", "i", "=", "0", ";", "i", "<", ToString(N), ";",
            "i", "=", "i", "+", "1", ")">>
       \o B \o T

LoopSources ==
    {LoopSource(O, N, B, T) : O \in Outers, N \in Limits, B \in LoopBodies, T \in Afters}

\* run_file: the one call of run, with allow_top_level_expr false
RunFile(source) ==
    /\ runs = <<>>
    /\ Run(source, FALSE)

NextFor ==
    \/ \E source \in LoopSources : RunFile(source)
    \/ EvaluateStatement
    \/ BlockJoin
    \/ Unwind
    \/ InterpretReturn

(***************************************************************************)
(* SpecRepl: run_prompt, the lines read one after the other and run on the *)
(* one Interpreter; read_line leaves the line break at the end of a line.  *)
(***************************************************************************)
ReplSources ==
    {<<"var", "a", "=", "1", ";", "\n">>,
     <<"a", "=", "2", ";", "\n">>,
     <<"var", "b", "=", "a", ";", "\n">>,
     <<"a", "\n">>,
     <<"a", "=", ";", "\n">>,
     <<"@", "\n">>,
     <<"1", "+", "1", "2", "\n">>,
     <<"a", "=", "5", ";", "b", "\n">>,
     <<"{", "var", "a", "=", "5", ";", "}", "\n">>,
     <<"var", "b", "=", "2", ";", "print", "q", ";", "\n">>,
     <<"{", "var", "b", "=", "3", ";", "a", "=", "4", ";", "print", "q", ";", "}", "\n">>}

\* run_prompt: a line that is not a directive is run with allow_top_level_expr true
RunPrompt(source) == Run(source, TRUE)

NextRepl ==
    \/ \E source \in ReplSources : RunPrompt(source)
    \/ EvaluateStatement
    \/ BlockJoin
    \/ Unwind
    \/ InterpretReturn

(***************************************************************************)
(* SpecProgram: run_file on the programs of up to MaxPieces statements,    *)
(* one to a line, some of which do not parse.                              *)
(***************************************************************************)
GoodPieces ==
    {<<"var", "a", "=", "1", ";">>, <<"print", "a", ";">>, <<"a", "=", "2", ";">>,
     <<"{", "var", "b", "=", "a", ";", "}">>}
BadPieces == {<<"print", ";">>, <<"1", "=", "2", ";">>, <<"print", "1">>}
Pieces == GoodPieces \cup BadPieces

PieceLists == UNION {[1..n -> Pieces] : n \in 1..MaxPieces}

RECURSIVE PieceSource(_)
\* the lexemes of a list of statements, a line break after each
PieceSource(pieces) ==
    IF pieces = <<>> THEN <<>>
    ELSE Head(pieces) \o <<"\n">> \o PieceSource(Tail(pieces))

PieceSources == {PieceSource(pieces) : pieces \in PieceLists}

NextProgram ==
    \/ \E source \in PieceSources : RunFile(source)
    \/ EvaluateStatement
    \/ BlockJoin
    \/ Unwind
    \/ InterpretReturn

(***************************************************************************)
(* SpecExpr: run_file on programs of one expression each, scanned, parsed  *)
(* and interpreted: the operand V ranges over one literal of each kind.    *)
(***************************************************************************)
Operands == {"0", "1", "0.0", "1.5", "\"\"", "\"ab\"", "true", "false", "nil"}

\* right operands: an assignment, a variable never declared, a literal
RightOperands == {<<"(", "a", "=", "1", ")">>, <<"q">>, <<"2">>}

\* var a = 0; print V op R; print a;
LogicalSource(V, op, R) ==
    <<"var", "a", "=", "0", ";", "\n", "print", V, op>> \o R
       \o <<";", "\n", "print", "a", ";", "\n">>
LogicalSources ==
    {LogicalSource(V, op, R) : V \in Operands, op \in {"and", "or"}, R \in RightOperands}

\* tests: the operands, and an assignment that counts the times it is evaluated
TernaryTests == {<<V>> : V \in Operands} \cup {<<"(", "a", "=", "a", "+", "1", ")">>}
WhenTrue == {<<"(", "a", "=", "7", ")">>, <<"q">>}
WhenFalse == {<<"(", "a", "=", "8", ")">>, <<"q">>, <<"3">>}

\* var a = 0; print C ? T : F; print a;
TernarySource(C, T, F) ==
    <<"var", "a", "=", "0", ";", "\n", "print">> \o C \o <<"?">> \o T \o <<":">> \o F
       \o <<";", "\n", "print", "a", ";", "\n">>
TernarySources ==
    {TernarySource(C, T, F) : C \in TernaryTests, T \in WhenTrue, F \in WhenFalse}

\* print C ? T; a ternary without its second branch
HalfTernarySource(C, T) == <<"print">> \o C \o <<"?">> \o T \o <<";", "\n">>
HalfTernarySources == {HalfTernarySource(C, T) : C \in TernaryTests, T \in WhenTrue}

\* print i + 1; and print -(-i - 1); with i the largest Integer
OverflowSources ==
    {<<"print", ToString(MaxInteger), "+", "1", ";", "\n">>,
     <<"print", "-", "(", "-", ToString(MaxInteger), "-", "1", ")", ";", "\n">>}

\* var x = 0 / 0; print x == x; print x != x;
NaNSource ==
    <<"var", "x", "=", "0", "/", "0", ";", "\n", "print", "x", "==", "x", ";", "\n",
      "print", "x", "!=", "x", ";", "\n">>

\* var a = 0; if (V) a = 1; else a = 2; print a;    and the same without the else
IfSource(V, else) ==
    <<"var", "a", "=", "0", ";", "\n", "if", "(", V, ")", "a", "=", "1", ";">>
       \o (IF else THEN <<"else", "a", "=", "2", ";">> ELSE <<>>)
       \o <<"\n", "print", "a", ";", "\n">>
IfSources == {IfSource(V, else) : V \in Operands, else \in BOOLEAN}

\* var a = V; while (a) print (a = nil); print 1;
WhileSource(V) ==
    <<"var", "a", "=", V, ";", "\n", "while", "(", "a", ")", "print", "(", "a", "=", "nil",
      ")", ";", "\n", "print", "1", ";", "\n">>
WhileSources == {WhileSource(V) : V \in Operands}

\* print +V;  print -V;  print !V;
PrefixSource(op, V) == <<"print", op, V, ";", "\n">>
PrefixSources == {PrefixSource(op, V) : op \in {"+", "-", "!"}, V \in Operands}

\* programs whose second statement returns an error, its parts on lines of their own:
\* a binary operator on unsupported types, the read of a variable never declared, an
\* assignment to one (its value with and without an assignment of its own), the
\* negation of a String
TypeErrorSource(op) ==
    <<"var", "a", "=", "1", ";", "\n", "print", "\n", "nil", "\n", op, "a", ";", "\n",
      "print", "a", ";", "\n">>
TypeErrorSources ==
    {TypeErrorSource(op) : op \in {"+", "-", "*", "/", "<", "<=", ">", ">="}}
ReadErrorSource ==
    <<"var", "a", "=", "1", ";", "\n", "print", "\n", "a", "+", "\n", "q", ";", "\n",
      "print", "a", ";", "\n">>
AssignErrorSource(value) ==
    <<"var", "a", "=", "1", ";", "\n", "print", "\n", "q", "\n", "=", "\n">> \o value
       \o <<";", "\n", "print", "a", ";", "\n">>
AssignErrorSources == {AssignErrorSource(value) : value \in {<<"a">>, <<"a", "=", "2">>}}
NegateErrorSource ==
    <<"var", "a", "=", "1", ";", "\n", "print", "-", "\n", "\"ab\"", ";", "\n">>
ErrorSources ==
    TypeErrorSources \cup {ReadErrorSource, NegateErrorSource} \cup AssignErrorSources

ExprSources ==
    LogicalSources \cup TernarySources \cup HalfTernarySources \cup OverflowSources
       \cup {NaNSource} \cup IfSources \cup WhileSources \cup PrefixSources
       \cup ErrorSources

NextExpr ==
    \/ \E source \in ExprSources : RunFile(source)
    \/ EvaluateStatement
    \/ Unwind
    \/ InterpretReturn

(***************************************************************************)
(* SpecApply: evaluate_expression on one operator applied to evaluated     *)
(* operands, for every operator and every pair of values of a set that has *)
(* the ends of the Integer range, NaN and an infinity in it.               *)
(***************************************************************************)
LiteralValues ==
    {Integer(MinInteger), Integer(-1), Integer(0), Integer(1), Integer(2),
     Integer(MaxInteger),
     Number(<<0, 1>>), Number(<<1, 1>>), Number(<<3, 2>>), Number(<<-3, 2>>),
     Number(<<0, 0>>), Number(<<1, 0>>),
     StringT(""), StringT("ab"), StringT("1"), True, False, Nil}

BinaryOperators ==
    {"Star", "Minus", "Plus", "Slash", "Greater", "GreaterEqual", "Lesser",
     "LesserEqual", "EqualEqual", "BangEqual"}
UnaryOperators == {"Plus", "Minus", "Bang"}

\* what the call of evaluate_expression did: it returned Ok(value) or Err(string),
\* or the thread panicked in it
Evaluated(expr, outcome, val, err) ==
    [op |-> "evaluate_expression", expression |-> expr, outcome |-> outcome,
     val |-> val, err |-> err]

\* one call of evaluate_expression on a fresh Interpreter
Evaluate(expr) ==
    /\ status = "idle"
    /\ LET R == evaluate_expression(Env, expr)
       IN  \/ /\ ret' = IF R.ok
                         THEN Evaluated(expr, "Ok", as_ref(R.env, R.data), "")
                         ELSE Evaluated(expr, "Err", NoValue, R.err)
              /\ status' = "done"
           \/ /\ ExpressionOverflows(Env, expr)
              /\ ret' = Evaluated(expr, "panic", NoValue, "")
              /\ status' = "panicked"
    /\ UNCHANGED <<stack, heap, kont, result, out, steps, errdepth, src, parsed, runs>>

EvaluateBinary ==
    \E operator \in BinaryOperators, l \in LiteralValues, r \in LiteralValues :
        Evaluate(Binary(LiteralExpr(l, 1), Tok(operator), LiteralExpr(r, 1), 1))

EvaluateUnary ==
    \E operator \in UnaryOperators, v \in LiteralValues :
        Evaluate(Unary(Tok(operator), LiteralExpr(v, 1), 1))

NextApply == EvaluateBinary \/ EvaluateUnary

(***************************************************************************)
(* SpecScan: run_file on every source of at most MaxChars characters over  *)
(* a letter, a digit, ';', an unknown character, a blank, a line break and *)
(* '/', and on every string literal whose body has at most MaxChars of     *)
(* '"', '\', a line break, 'n' and 'b'.                                    *)
(***************************************************************************)
ScanChars == {"a", "9", ";", "@", " ", "\n", "/"}
StringChars == {"\"", "\\", "\n", "n", "b"}
CharSources == UNION {[1..n -> ScanChars] : n \in 1..MaxChars}
StringSources == {<<"\"">> \o body : body \in UNION {[1..n -> StringChars] : n \in 0..MaxChars}}

\* run_file on a source given character by character
RunFileChars(source) ==
    /\ runs = <<>>
    /\ RunProgram(source, FrontEndTokens(ScanTokens(source), FALSE))

NextScan ==
    \/ \E source \in CharSources \cup StringSources : RunFileChars(source)
    \/ EvaluateStatement
    \/ Unwind
    \/ InterpretReturn

(***************************************************************************)
(* SpecCursor: a Parser on the tokens of a source of at most MaxTokens     *)
(* lexemes, and of a few longer ones, stepped as run steps it: parse, one  *)
(* declaration at a time, then on an Err reset and                         *)
(* parse_top_level_expression; peek at any moment.  ret is the Parser and  *)
(* the outcome of its last call.                                           *)
(***************************************************************************)
CursorLexemes == {"1", "a", ";", "print", "var", "=", "*", "!", "{"}
OperatorLexemes == {"*", "/", "!", "!=", "=", "==", "<", "<=", ">", ">="}
LongSources ==
    {<<"\n", op, "1", ";", "print", "a", ";">> : op \in OperatorLexemes}
    \cup {<<"print", op, "(", "1", ")", ";">> : op \in OperatorLexemes}
    \cup {<<"-", op, "1", ";">> : op \in OperatorLexemes}
    \cup {<<"(", op, "1", ")", ";">> : op \in OperatorLexemes}
    \cup {<<"1", "+", op, "(", "a", "}">> : op \in OperatorLexemes}
    \cup {<<"{", "1", "+", ";", "print", "1", ";", "print", "a", ";", "}">>,
          <<"{", "{", "print">>,
          <<"var", "a", "=", "\n", "*", "a", ";", "a", ";">>,
          <<"1", "+", ";", "1", ";", "print", "a", ";">>,
          <<"{", "a", ";", "}", "var", "a", "=", "1", ";", "print", "a", ";">>}
CursorSources == UNION {[1..n -> CursorLexemes] : n \in 1..MaxTokens} \cup LongSources

Unread == [read |-> FALSE]

\* Parser::peek as an Option: None, or Some(&self.tokens[self.current])
peek_option(tokens, current) ==
    IF is_at_end(tokens, current)
    THEN [read |-> TRUE, some |-> FALSE]
    ELSE [read |-> TRUE, some |-> TRUE, index |-> current, token |-> peek(tokens, current)]

\* Parser::new
ParserNew(source) ==
    /\ ret = RetNew
    /\ scan_tokens(source).ok
    /\ src' = source
    /\ ret' = [tokens |-> scan_tokens(source).tokens, current |-> 0, call |-> "new",
               from |-> 0, at |-> 0, ok |-> TRUE, err |-> "", raised |-> "",
               statements |-> <<>>, peeked |-> Unread]
    /\ UNCHANGED <<stack, heap, kont, status, result, out, steps, errdepth, parsed, runs>>

\* one turn of the loop of parse: `statements.push(self.declaration()?)`
ParseDeclaration ==
    /\ "call" \in DOMAIN ret
    /\ ret.call \in {"new", "declaration"}
    /\ ret.ok
    /\ ~is_at_end(ret.tokens, ret.current)
    /\ LET inner == declared(ret.tokens, ret.current)
           d == declaration(ret.tokens, ret.current)
       IN  ret' = [ret EXCEPT !.call = "declaration", !.from = ret.current,
                              !.at = inner.cur, !.raised = inner.err,
                              !.current = d.cur, !.ok = d.ok, !.err = d.err,
                              !.statements = IF d.ok THEN Append(@, d.val) ELSE @,
                              !.peeked = Unread]
    /\ UNCHANGED <<stack, heap, kont, status, result, out, steps, errdepth, src, parsed,
                   runs>>

\* parse returns: the Err of a declaration, or Ok(statements) at the end
ParseReturn ==
    /\ "call" \in DOMAIN ret
    /\ ret.call \in {"new", "declaration"}
    /\ ~ret.ok \/ is_at_end(ret.tokens, ret.current)
    /\ ret' = [ret EXCEPT !.call = "parse", !.peeked = Unread]
    /\ parsed' = [stage |-> "parse", ok |-> ret.ok,
                  val |-> IF ret.ok THEN ret.statements ELSE <<>>, err |-> ret.err]
    /\ UNCHANGED <<stack, heap, kont, status, result, out, steps, errdepth, src, runs>>

\* Parser::reset, which run calls when parse returned an Err
Reset ==
    /\ "call" \in DOMAIN ret
    /\ ret.call = "parse"
    /\ ~ret.ok
    /\ ret' = [ret EXCEPT !.call = "reset", !.current = 0, !.peeked = Unread]
    /\ UNCHANGED <<stack, heap, kont, status, result, out, steps, errdepth, src, parsed,
                   runs>>

\* Parser::parse_top_level_expression after the reset
ParseTopLevelExpression ==
    /\ "call" \in DOMAIN ret
    /\ ret.call = "reset"
    /\ LET e == expression(ret.tokens, ret.current)
       IN  /\ ret' = [ret EXCEPT !.call = "top", !.from = ret.current, !.at = e.cur,
                                 !.current = e.cur, !.ok = e.ok, !.err = e.err,
                                 !.raised = e.err, !.peeked = Unread]
           /\ parsed' = IF e.ok
                        THEN [stage |-> "top", ok |-> TRUE,
                              val |-> top_level_node(e).val, err |-> ""]
                        ELSE parsed
    /\ UNCHANGED <<stack, heap, kont, status, result, out, steps, errdepth, src, runs>>

\* Parser::peek
Peek ==
    /\ "call" \in DOMAIN ret
    /\ ret.peeked = Unread
    /\ ret' = [ret EXCEPT !.peeked = peek_option(ret.tokens, ret.current)]
    /\ UNCHANGED <<stack, heap, kont, status, result, out, steps, errdepth, src, parsed,
                   runs>>

NextCursor ==
    \/ \E source \in CursorSources : ParserNew(source)
    \/ ParseDeclaration
    \/ ParseReturn
    \/ Reset
    \/ ParseTopLevelExpression
    \/ Peek

vars == <<stack, heap, ret, kont, status, result, out, steps, errdepth, src, parsed, runs>>

Spec == Init /\ [][Next]_vars

SpecEnv == InitEnv /\ [][NextEnv]_vars

SpecParse == InitParse /\ [][NextParse]_vars

SpecFor == Init /\ [][NextFor]_vars

SpecRepl == Init /\ [][NextRepl]_vars

SpecProgram == Init /\ [][NextProgram]_vars
SpecExpr == Init /\ [][NextExpr]_vars
SpecApply == Init /\ [][NextApply]_vars
SpecScan == Init /\ [][NextScan]_vars
SpecCursor == Init /\ [][NextCursor]_vars

(***************************************************************************)
(* The claims.                                                             *)
(***************************************************************************)

\* the values the scopes hold, without the addresses
Bindings == [i \in DOMAIN stack |-> [n \in DOMAIN stack[i] |-> heap[stack[i][n]]]]

BlockFrames == Cardinality({i \in DOMAIN kont : kont[i].f = "Block"})

\* C1: the scope stack is balanced. While interpret runs, the number of scopes is
\* the one before the call (1) plus the Blocks in progress, so it never drops below
\* it and no join fails; when interpret has returned, with Ok or with an Err raised
\* at any depth, exactly the scope from before the call is left.
C1_ScopeStackBalance ==
    /\ status # "panicked"
    /\ Len(stack) >= 1
    /\ status \in {"running", "unwinding"} => Len(stack) = 1 + BlockFrames
    /\ status \in {"idle", "done"} => Len(stack) = 1

\* C1 witness: interpret has returned an Err that arose inside two nested scopes
C1_Witness ==
    /\ status = "done"
    /\ ~result.ok
    /\ errdepth = 3
    /\ Len(stack) = 1

\* the expression a statement evaluates first, if it has one
HeadExpression(s) ==
    CASE s.node \in {"ExpressionStatement", "PrintStatement"} -> s.expr
      [] s.node = "Declaration" -> s.initializer
      [] s.node \in {"IfStatement", "WhileStatement"} -> s.test
      [] OTHER -> LiteralExpr(Nil, s.line)

\* C2: a runtime error stops evaluation at once. When the expression of the statement
\* being evaluated yields an error, the step raises exactly that error, prints nothing
\* and keeps every binding; while the error propagates nothing is printed, no
\* statement is evaluated, the error stays the same and scopes are only popped; so
\* interpret returns that error and the bindings of the scopes still live remain.
C2_ErrorStopsEvaluation ==
    [][/\ (status = "running" /\ HasCurrent(kont)
           /\ ~evaluate_expression(Env, HeadExpression(Current(kont))).ok)
          => /\ status' = "unwinding"
             /\ result' = ResultErr(evaluate_expression(Env, HeadExpression(Current(kont))).err)
             /\ out' = out
             /\ Bindings' = Bindings
       /\ status = "unwinding"
          => /\ status' \in {"unwinding", "done"}
             /\ result' = result
             /\ out' = out
             /\ steps' = steps
             /\ Bindings' \in {Bindings, Tail(Bindings)}
             /\ Len(kont') < Len(kont)]_vars

\* C2 witness: interpret has returned the error of `print c;`, raised in a block
\* after `var a = 1;`, and a is still 1
C2_Witness ==
    /\ status = "done"
    /\ result = ResultErr("Line 1: Variable 'c' referenced before assignment")
    /\ errdepth = 2
    /\ "a" \in DOMAIN stack[1]
    /\ heap[stack[1]["a"]] = Integer(1)

\* the scope at the back of the list and the values its names are bound to
Global == stack[Len(stack)]
GlobalValues == [n \in DOMAIN Global |-> heap[Global[n]]]

Unbound(name) == "Line 1: Variable '" \o name \o "' referenced before assignment"

\* C3: REPL persistence.  Over any sequence of run calls on the one interpreter:
\* a call finds the top-level bindings as the call before left them and starts and
\* ends with the global scope alone; a call that fails in the scanner or the parser
\* returns the Err and changes no binding; while statements are evaluated no
\* top-level name is lost, and an Err on its way out of interpret changes no
\* top-level binding (those made before the error stay); a later `a` prints the
\* value a is bound to at that time, or fails when no call has defined a.
C3_ReplPersistence ==
    [][/\ status \in {"idle", "done"}
          => /\ Len(stack) = 1
             /\ Len(stack') = 1
             /\ GlobalValues' = GlobalValues
             /\ runs' = Append(runs, runs'[Len(runs')])
             /\ runs'[Len(runs')] \in {"scan", "parse"}
                   => /\ status' = "done"
                      /\ ~result'.ok
             /\ runs'[Len(runs')] = "interpret" => status' = "running"
       /\ status = "running"
          => /\ Len(stack') >= 1
             /\ DOMAIN GlobalValues \subseteq DOMAIN GlobalValues'
       /\ status = "unwinding" => GlobalValues' = GlobalValues
       /\ (status = "running" /\ status' = "done") => GlobalValues' = GlobalValues
       /\ status' = "done" => Len(stack') = 1
       /\ (status' = "done" /\ src' = <<"a", "\n">>)
          => IF "a" \in DOMAIN GlobalValues'
             THEN /\ result' = ResultOk
                  /\ out' = <<LiteralDisplay(GlobalValues'["a"])>>
                  /\ runs'[Len(runs')] = "ok"
             ELSE /\ result' = ResultErr(Unbound("a"))
                  /\ out' = <<>>
                  /\ runs'[Len(runs')] = "runtime"]_vars

\* `var a = 1;`, then `{ var b = 3; a = 4; print q; }` failing at runtime, then `a`
\* has printed 4
C3_Witness ==
    /\ runs = <<"ok", "runtime", "ok">>
    /\ src = <<"a", "\n">>
    /\ status = "done"
    /\ out = <<"4">>
    /\ DOMAIN Global = {"a"}

Holders(name) == {i \in DOMAIN stack : name \in DOMAIN stack[i]}
Innermost(name) == CHOOSE i \in Holders(name) : \A j \in Holders(name) : i <= j

\* C4: lexical shadowing.  get(name) returns the binding of the innermost scope that
\* contains name and nothing when no scope does; fork pushes an empty scope; define
\* writes name in the innermost scope only (overwriting without error) and leaves
\* every outer scope as it was; join removes exactly the innermost scope, so what
\* the outer scopes held before the fork is what is read after the join.
C4_LexicalShadowing ==
    [][/\ ret'.op = "get"
          => /\ ret'.ok = (Holders(ret'.name) # {})
             /\ ret'.val = IF Holders(ret'.name) = {} THEN NoValue
                           ELSE Bindings[Innermost(ret'.name)][ret'.name]
             /\ Bindings' = Bindings
       /\ ret'.op = "fork" => Bindings' = <<EmptyMap>> \o Bindings
       /\ (ret'.op = "define" \/ (ret'.op = "declaration" /\ ret'.ok))
          => /\ ret'.ok
             /\ Len(stack) >= 1
                => Bindings' = [Bindings EXCEPT ![1] = MapInsert(@, ret'.name, ret'.arg)]
             /\ Len(stack) = 0 => Bindings' = Bindings
       /\ (ret'.op = "join" /\ Len(stack) >= 2)
          => ret'.ok /\ Bindings' = Tail(Bindings)]_vars

\* a read of a name that is bound in both scopes to different values
C4_Witness ==
    /\ ret.op = "get" /\ ret.name = "a" /\ ret.ok
    /\ Len(stack) = 2
    /\ "a" \in DOMAIN stack[1] /\ "a" \in DOMAIN stack[2]
    /\ Bindings[1]["a"] = Integer(2) /\ Bindings[2]["a"] = Integer(1)
    /\ ret.val = Integer(2)

\* C5: assign(name, value) replaces the binding of name in the innermost scope that
\* holds it and nowhere else, creates no binding, and its effect in an outer scope is
\* still there after a join; when no scope holds name it fails with the 'before
\* declaration' error, which the interpreter prefixes with the line of the
\* assignment, and every scope stays as it was.
C5_AssignInnermostHolder ==
    [][/\ (ret'.op \in {"assign", "assignment"} /\ ret'.arg # NoValue)
          => IF Holders(ret'.name) = {}
             THEN /\ ~ret'.ok
                  /\ Bindings' = Bindings
                  /\ ret'.err = IF ret'.op = "assign"
                                THEN "Attempted to assign to '" \o ret'.name
                                        \o "' before declaration"
                                ELSE "Line " \o ToString(ret'.line)
                                        \o ": Attempted to assign to '" \o ret'.name
                                        \o "' before declaration"
             ELSE /\ ret'.ok
                  /\ ret'.val = ret'.arg
                  /\ Bindings' = [Bindings EXCEPT
                                    ![Innermost(ret'.name)][ret'.name] = ret'.arg]
       /\ (ret'.op = "join" /\ Len(stack) >= 2) => Bindings' = Tail(Bindings)]_vars

\* an assignment made in a forked scope to a name that only the outer scope holds
C5_Witness ==
    /\ ret.op = "assign" /\ ret.name = "a" /\ ret.ok /\ ret.arg = Integer(2)
    /\ Len(stack) = 2
    /\ "a" \notin DOMAIN stack[1]
    /\ "a" \in DOMAIN stack[2] /\ Bindings[2]["a"] = Integer(2)
    /\ "b" \in DOMAIN stack[1]

\* C6: join on an Environment that holds only its global scope returns the error
\* 'Attempted to join in a non-forked environment' and leaves the global scope and
\* its bindings in place.
C6_JoinFailsWithoutFork ==
    [][(ret'.op = "join" /\ Len(stack) = 1)
          => /\ ~ret'.ok
             /\ ret'.err = JoinError
             /\ Bindings' = Bindings]_vars

\* C7: assignment and declaration are by value.  An assign or define of one name,
\* through the Environment or through the interpreter's Assignment and Declaration,
\* leaves the binding of every other name, in every scope, as it was, also when the
\* two names shared one slot.
C7_ByValue ==
    [][ret'.op \in {"define", "assign", "declaration", "assignment"}
          => /\ Len(Bindings') = Len(Bindings)
             /\ \A i \in DOMAIN Bindings : \A n \in DOMAIN Bindings[i] :
                   n # ret'.name
                      => n \in DOMAIN Bindings'[i] /\ Bindings'[i][n] = Bindings[i][n]
             /\ \A n \in Names \ {ret'.name} : ValueOf(Env, n)' = ValueOf(Env, n)]_vars

\* a was assigned while it shared its slot with another name; b still reads 1
C7_Witness ==
    /\ ret.op = "assign" /\ ret.name = "a" /\ ret.ok /\ ret.shared
    /\ ValueOf(Env, "a") = Integer(2)
    /\ ValueOf(Env, "b") = Integer(1)

\* the while statement a `for` statement was turned into: the last statement of
\* the Block the parser returned for it
DesugaredWhile(program) == program[1].statements[Len(program[1].statements)]

\* C8: for-loop with absent condition.  For every `for` header without a condition,
\* with the initializer and the update each present or absent, the parser succeeds,
\* the test of the while is the literal true, and the update (when present) is the
\* statement after the body in the body of the while.
C8_AbsentCondition ==
    \A nl \in Breaks, I \in ForInits, U \in ForUpdates, B \in ForBodies :
        (parsed.stage = "parse" /\ src = nl \o ForSource(I, <<>>, U, B))
        => /\ parsed.ok
           /\ Len(parsed.val) = 1
           /\ parsed.val[1].node = "Block"
           /\ Len(parsed.val[1].statements) = (IF I = <<>> THEN 1 ELSE 2)
           /\ DesugaredWhile(parsed.val).node = "WhileStatement"
           /\ DesugaredWhile(parsed.val).test.node = "Literal"
           /\ DesugaredWhile(parsed.val).test.value = True
           /\ IF U = <<>>
              THEN DesugaredWhile(parsed.val).body.node
                      = (IF B[1] = "print" THEN "PrintStatement" ELSE "Block")
              ELSE /\ DesugaredWhile(parsed.val).body.node = "Block"
                   /\ Len(DesugaredWhile(parsed.val).body.statements) = 2
                   /\ DesugaredWhile(parsed.val).body.statements[2].node
                         = "ExpressionStatement"
                   /\ DesugaredWhile(parsed.val).body.statements[2].expr.node
                         = "Assignment"

\* the for statement of a program of SpecFor: the statement before the last
LoopOf(program) == program[Len(program) - 1]

\* what the loop of LoopSource(O, N, B, T) prints, and the x it leaves
LoopOut(N, B) == IF B[1] = "print" THEN [k \in 1..N |-> ToString(k - 1)] ELSE <<>>
LoopSum(N, B) == IF "+" \in {B[k] : k \in DOMAIN B} THEN (N * (N - 1)) \div 2 ELSE 0
LoopFails(N, B) == N > 0 /\ "q" \in {B[k] : k \in DOMAIN B}

\* C9: for-loop desugaring with all parts present.  `for (I; C; U) B` is the Block
\* of I and of the while of C whose body is the Block of B and then U.  Run, it
\* executes I once in a fresh scope, tests C before every iteration and executes B
\* and then U in every iteration (B sees i = 0, 1, .., N-1); the i of I is visible
\* in C, B and U, is not visible after the loop and leaves an outer i as it was,
\* and the assignments of B to the outer x persist (x ends as 0 + 1 + .. + N-1).
C9_ForDesugaring ==
    \A O \in Outers, N \in Limits, B \in LoopBodies, T \in Afters :
        src = LoopSource(O, N, B, T)
        => /\ parsed.ok
           /\ LoopOf(parsed.val).node = "Block"
           /\ Len(LoopOf(parsed.val).statements) = 2
           /\ LoopOf(parsed.val).statements[1]
                 = Declaration("i", LiteralExpr(Integer(0), 1), 1)
           /\ LoopOf(parsed.val).statements[2].node = "WhileStatement"
           /\ LoopOf(parsed.val).statements[2].test
                 = Binary(Variable("i", 1), Tok("Lesser"), LiteralExpr(Integer(N), 1), 1)
           /\ LoopOf(parsed.val).statements[2].body.node = "Block"
           /\ Len(LoopOf(parsed.val).statements[2].body.statements) = 2
           /\ LoopOf(parsed.val).statements[2].body.statements[1].node
                 = (IF B[1] = "{" THEN "Block"
                    ELSE IF B[1] = "print" THEN "PrintStatement" ELSE "ExpressionStatement")
           /\ LoopOf(parsed.val).statements[2].body.statements[2]
                 = ExpressionStatement(
                      Assignment("i", Binary(Variable("i", 1), Tok("Plus"),
                                             LiteralExpr(Integer(1), 1), 1), 1), 1)
           /\ status # "panicked"
           /\ ("i" \in DOMAIN Global) => (O # <<>> /\ heap[Global["i"]] = Integer(7))
           /\ status = "done"
                 => /\ Len(stack) = 1
                    /\ ("i" \in DOMAIN Global) = (O # <<>>)
                    /\ IF LoopFails(N, B)
                       THEN /\ result = ResultErr(Unbound("q"))
                            /\ out = <<>>
                            /\ heap[Global["x"]] = Integer(0)
                       ELSE /\ heap[Global["x"]] = Integer(LoopSum(N, B))
                            /\ IF T[2] = "x"
                               THEN /\ result = ResultOk
                                    /\ out = LoopOut(N, B) \o <<ToString(LoopSum(N, B))>>
                               ELSE IF O # <<>>
                               THEN /\ result = ResultOk
                                    /\ out = LoopOut(N, B) \o <<"7">>
                               ELSE /\ result = ResultErr(Unbound("i"))
                                    /\ out = LoopOut(N, B)

\* var x = 0; for (var i = 0; i < 3; i = i + 1) { x = x + i; } print x;  has printed 3
C9_Witness ==
    /\ src = LoopSource(<<>>, 3, <<"{", "x", "=", "x", "+", "i", ";", "}">>,
                        <<"print", "x", ";">>)
    /\ status = "done"
    /\ result = ResultOk
    /\ out = <<"3">>
    /\ heap[Global["x"]] = Integer(3)

\* the index of the first statement of the list that does not parse (0: none)
FirstBad(pieces) ==
    IF \E k \in DOMAIN pieces : pieces[k] \in BadPieces
    THEN CHOOSE k \in DOMAIN pieces :
            /\ pieces[k] \in BadPieces
            /\ \A j \in 1..(k - 1) : pieces[j] \in GoodPieces
    ELSE 0

\* the error of the statement on line k, the one after it starting on line k + 1
PieceError(pieces, k) ==
    IF pieces[k] = <<"print", ";">>
    THEN "Line " \o ToString(k) \o ": Failed to parse ;; expected expression"
    ELSE IF pieces[k] = <<"1", "=", "2", ";">>
    THEN "Line " \o ToString(k) \o ": Invalid assignment target: MetaContainer { item: "
            \o "(literal 1), line: " \o ToString(k) \o " }"
    ELSE IF k = Len(pieces) THEN "EOF: Expected ; but got EOF"
    ELSE "Line " \o ToString(k + 1) \o ": Expected ; but got "
            \o (IF pieces[k + 1][1] = "1" THEN "1"
                ELSE IF pieces[k + 1][1] = "a" THEN "id:a"
                ELSE pieces[k + 1][1])

PieceNode(piece) ==
    CASE piece[1] = "var" -> "Declaration"
      [] piece[1] = "print" -> "PrintStatement"
      [] piece[1] = "{" -> "Block"
      [] OTHER -> "ExpressionStatement"

\* C11: all-or-nothing parsing.  parse returns the statements of the whole input,
\* one for each statement of the source in its order, or the error of the first
\* statement that does not parse and no statement; run_file then evaluates
\* nothing: the statements before the erroneous one define no variable and print
\* nothing.
C11_AllOrNothing ==
    \A pieces \in PieceLists :
        (src = PieceSource(pieces) /\ parsed.stage # "none")
        => IF FirstBad(pieces) = 0
           THEN /\ parsed.ok
                /\ Len(parsed.val) = Len(pieces)
                /\ \A k \in DOMAIN pieces :
                      /\ parsed.val[k].node = PieceNode(pieces[k])
                      /\ parsed.val[k].line = k
           ELSE /\ parsed = [stage |-> "parse", ok |-> FALSE, val |-> <<>>,
                             err |-> PieceError(pieces, FirstBad(pieces))]
                /\ status = "done"
                /\ result = ResultErr(PieceError(pieces, FirstBad(pieces)))
                /\ runs = <<"parse">>
                /\ stack = EnvNew.stack
                /\ heap = EnvNew.heap
                /\ out = <<>>
                /\ kont = <<>>
                /\ steps = 0

\* `var a = 1;` and `print a;` parse, the `1 = 2;` of line 3 does not
C11_Witness ==
    /\ src = PieceSource(<< <<"var", "a", "=", "1", ";">>, <<"print", "a", ";">>,
                            <<"1", "=", "2", ";">> >>)
    /\ status = "done"
    /\ ~parsed.ok
    /\ parsed.val = <<>>
    /\ stack = EnvNew.stack
    /\ out = <<>>

\* the lines of SpecRepl in which tokens are left after the first expression
Leftovers == {<<"1", "+", "1", "2", "\n">>, <<"a", "=", "5", ";", "b", "\n">>}

\* C12: the top-level-expression fallback covers the entire input.  A line that is
\* one expression becomes the one PrintStatement of it; a line with tokens left
\* after the expression (`1 + 1 2`, `a = 5; b`) makes the fallback fail, and run
\* returns the error of parse without evaluating anything.
C12_FallbackCoversInput ==
    /\ (src = <<"a", "\n">> /\ parsed.stage # "none")
       => parsed = [stage |-> "top", ok |-> TRUE,
                    val |-> <<PrintStatement(Variable("a", 1), 1)>>, err |-> ""]
    /\ (src \in Leftovers /\ parsed.stage # "none")
       => /\ parsed.stage = "parse"
          /\ ~parsed.ok
          /\ parsed.val = <<>>
          /\ status = "done"
          /\ result = ResultErr(parse(scan_tokens(src).tokens).err)
          /\ runs[Len(runs)] = "parse"
          /\ out = <<>>

\* the tokens of the source and, in a statement `L = R;`, `print L = R;` or
\* `var x = L = R;`, the cursor at which its expression starts
Tokens == scan_tokens(src).tokens
ExprStart ==
    IF Tokens[1].item.type = "Print" THEN 1 ELSE IF Tokens[1].item.type = "Var" THEN 3 ELSE 0

\* the cursors at which the parser looks for an assignment: the start of the
\* expression and, after every `=`, the start of its right-hand side
RECURSIVE AssignPositions(_, _)
AssignPositions(tokens, p) ==
    IF ternary(tokens, p).ok /\ match_head(tokens, ternary(tokens, p).cur, "Equal")
    THEN {p} \cup AssignPositions(tokens, ternary(tokens, p).cur + 1)
    ELSE {p}

\* at p an expression that is not a Variable is followed by `=`
BadTarget(tokens, p) ==
    LET lhs == ternary(tokens, p)
    IN  lhs.ok /\ match_head(tokens, lhs.cur, "Equal") /\ lhs.val.node # "Variable"

\* the error for the target parsed at p: the line is that of the `=` after it
TargetError(tokens, p) ==
    LET lhs == ternary(tokens, p)
    IN  "Line " \o ToString(peek(tokens, lhs.cur).line) \o ": Invalid assignment target: "
           \o ExpressionDebug(lhs.val)

\* the expression parsed from p is the chain of Assignment nodes, outermost first,
\* of the variables before each `=`
RECURSIVE RightAssociative(_, _, _)
RightAssociative(expr, tokens, p) ==
    LET lhs == ternary(tokens, p)
    IN  IF match_head(tokens, lhs.cur, "Equal")
        THEN /\ expr.node = "Assignment"
             /\ lhs.val.node = "Variable"
             /\ expr.name = lhs.val.name
             /\ RightAssociative(expr.value, tokens, lhs.cur + 1)
        ELSE expr = lhs.val

OperandValue ==
    "0" :> Integer(0) @@ "1" :> Integer(1) @@ "0.0" :> Number(<<0, 1>>)
    @@ "1.5" :> Number(<<3, 2>>) @@ "\"\"" :> StringT("") @@ "\"ab\"" :> StringT("ab")
    @@ "true" :> True @@ "false" :> False @@ "nil" :> Nil
Falsy(l) == l \in {False, Nil}

\* C13: in `var a = 0; print L op R; print a;`, `and` with a falsy L and `or` with
\* a truthy L give L itself (printed as the value it is, not as true or false) and
\* nothing of R happens: a stays 0 and no error is returned; otherwise the result is
\* whatever R gives: its value, its assignment to a, or its error
C13_ShortCircuit ==
    \A V \in Operands, op \in {"and", "or"}, R \in RightOperands :
        src = LogicalSource(V, op, R) =>
            IF (op = "and") = Falsy(OperandValue[V])
            THEN /\ status # "panicked"
                 /\ result.ok
                 /\ "a" \in DOMAIN Global => GlobalValues["a"] = Integer(0)
                 /\ status = "done" => out = <<LiteralDisplay(OperandValue[V]), "0">>
            ELSE status = "done" =>
                    CASE R = <<"(", "a", "=", "1", ")">> -> result.ok /\ out = <<"1", "1">>
                      [] R = <<"q">> ->
                           /\ out = <<>>
                           /\ result = ResultErr("Line 2: Variable 'q' referenced before assignment")
                      [] R = <<"2">> -> result.ok /\ out = <<"2", "0">>

\* `nil and (a = 1)` and `0 or q` have returned their left operands
C13_Witness ==
    /\ status = "done"
    /\ \/ src = LogicalSource("nil", "and", <<"(", "a", "=", "1", ")">>) /\ out = <<"nil", "0">>
       \/ src = LogicalSource("0", "or", <<"q">>) /\ out = <<"0", "0">>

\* what a branch of the ternary sources gives when it is evaluated with a = a0: the
\* lines printed by the two print statements, or no line and the error of `q`
BranchOut(B, a0) ==
    CASE B = <<"q">> -> <<>>
      [] B = <<"3">> -> <<"3", ToString(a0)>>
      [] OTHER -> <<B[4], B[4]>>
BranchResult(B) ==
    IF B = <<"q">>
    THEN ResultErr("Line 2: Variable 'q' referenced before assignment")
    ELSE ResultOk

\* the values a takes in a ternary source whose selected branch is B
BranchValues(B) == {Integer(0), Integer(1)} \cup (IF Len(B) = 5 THEN {Integer(Digits[B[4]])} ELSE {})

\* C14: in `var a = 0; print C ? T : F; print a;` the test is evaluated once (a test
\* `(a = a + 1)` leaves a = 1), then T when the test is truthy and F otherwise, and
\* nothing of the other branch happens: a never takes the value it assigns and its
\* error is not returned; a ternary without `:` and a second branch does not parse,
\* so the Ternary node of a parsed program has its two branches
C14_Ternary ==
    /\ \A C \in TernaryTests, T \in WhenTrue, F \in WhenFalse :
          src = TernarySource(C, T, F) =>
              LET a0 == IF Len(C) = 1 THEN 0 ELSE 1
                  B == IF Len(C) = 1 /\ Falsy(OperandValue[C[1]]) THEN F ELSE T
              IN  /\ status # "panicked"
                  /\ parsed.ok
                  /\ parsed.val[2].expr.node = "Ternary"
                  /\ parsed.val[2].expr.when_true.node \in {"Assignment", "Variable"}
                  /\ parsed.val[2].expr.when_false.node \in {"Assignment", "Variable", "Literal"}
                  /\ "a" \in DOMAIN Global => GlobalValues["a"] \in BranchValues(B)
                  /\ status = "done" =>
                        /\ out = BranchOut(B, a0)
                        /\ result = BranchResult(B)
                        /\ B = <<"q">> => GlobalValues["a"] = Integer(a0)
    /\ \A C \in TernaryTests, T \in WhenTrue :
          src = HalfTernarySource(C, T) =>
              /\ ~parsed.ok
              /\ status = "done"
              /\ ~result.ok
              /\ kont = <<>>
              /\ out = <<>>

\* the test `(a = a + 1)` was evaluated once and the first branch (a = 7) was taken;
\* a false test took the branch `3` and left alone the `q` of the first
C14_Witness ==
    /\ status = "done"
    /\ \/ /\ src = TernarySource(<<"(", "a", "=", "a", "+", "1", ")">>, <<"q">>, <<"3">>)
          /\ GlobalValues["a"] = Integer(1)
          /\ ~result.ok
       \/ /\ src = TernarySource(<<"false">>, <<"q">>, <<"3">>)
          /\ out = <<"3", "0">>

\* the operator, the operands and the kind of the Binary expression last evaluated
Applied(operators) ==
    /\ ret.op = "evaluate_expression"
    /\ ret.expression.node = "Binary"
    /\ ret.expression.operator.type \in operators
Left == ret.expression.left.value
Right == ret.expression.right.value
Arithmetic == {"Plus", "Minus", "Star"}
Comparisons == {"Greater", "GreaterEqual", "Lesser", "LesserEqual"}
Numerics == {"Integer", "Number"}
Symbol ==
    "Plus" :> "+" @@ "Minus" :> "-" @@ "Star" :> "*" @@ "Slash" :> "/" @@ "Greater" :> ">"
    @@ "GreaterEqual" :> ">=" @@ "Lesser" :> "<" @@ "LesserEqual" :> "<="
CannotBeApplied ==
    "Line 1: " \o Symbol[ret.expression.operator.type]
       \o " cannot be applied to the given types"

\* C15: `+ - *` on two Integers never give the error, and the value they return is an
\* Integer (the sums that leave the Integer range are the matter of C16); on two
\* numeric operands of which one is a Number they return a Number; `/` returns a
\* Number for every numeric pair, 2 / 1 included; `< <= > >=` return True or False
\* for every numeric pair; every other pair, but a String on the left of `+`, gives
\* the error 'cannot be applied to the given types' and no value
C15_NumericTypes ==
    /\ Applied(Arithmetic) /\ Left.t = "Integer" /\ Right.t = "Integer" =>
          /\ ret.outcome # "Err"
          /\ ret.outcome = "Ok" => ret.val.t = "Integer"
    /\ Applied(Arithmetic) /\ {Left.t, Right.t} \subseteq Numerics
         /\ "Number" \in {Left.t, Right.t} =>
          ret.outcome = "Ok" /\ ret.val.t = "Number"
    /\ Applied({"Slash"}) /\ {Left.t, Right.t} \subseteq Numerics =>
          ret.outcome = "Ok" /\ ret.val.t = "Number"
    /\ Applied(Comparisons) /\ {Left.t, Right.t} \subseteq Numerics =>
          ret.outcome = "Ok" /\ ret.val \in {True, False}
    /\ Applied(Arithmetic \cup {"Slash"} \cup Comparisons)
         /\ ~({Left.t, Right.t} \subseteq Numerics)
         /\ ~(ret.expression.operator.type = "Plus" /\ Left.t = "StringT") =>
          ret.outcome = "Err" /\ ret.val = NoValue /\ ret.err = CannotBeApplied

\* 2 / 1 has returned the Number 2, and 1 + 1.5 the Number 2.5
C15_Witness ==
    \/ Applied({"Slash"}) /\ Left = Integer(2) /\ Right = Integer(1)
         /\ ret.val = Number(<<2, 1>>)
    \/ Applied({"Plus"}) /\ Left = Integer(1) /\ Right = Number(<<3, 2>>)
         /\ ret.val = Number(<<5, 2>>)

\* the sum, difference or product of two integers, as numbers
Exact(type, i, j) ==
    CASE type = "Plus" -> i + j
      [] type = "Minus" -> i - j
      [] type = "Star" -> i * j

\* C16: `+`, `-` and `*` on every pair of Integers, and unary `-` on every Integer,
\* return Ok with the Integer that is the exact result, which lies in the Integer
\* range: no panic and no wrapped result
C16_IntegerRange ==
    /\ Applied(Arithmetic) /\ Left.t = "Integer" /\ Right.t = "Integer" =>
          /\ ret.outcome = "Ok"
          /\ ret.val = Integer(Exact(ret.expression.operator.type, Left.v, Right.v))
          /\ ret.val.v \in MinInteger..MaxInteger
    /\ (/\ ret.op = "evaluate_expression"
        /\ ret.expression.node = "Unary"
        /\ ret.expression.operator.type = "Minus"
        /\ ret.expression.operand.value.t = "Integer") =>
          /\ ret.outcome = "Ok"
          /\ ret.val = Integer(-ret.expression.operand.value.v)
          /\ ret.val.v \in MinInteger..MaxInteger

\* C17: `L + R` with L a String returns, for every value R, the String made of L and
\* the displayed form of R after it (R itself when it is a String); with R a String
\* and L of another kind it gives the error 'cannot be applied to the given types'
C17_Concatenation ==
    /\ Applied({"Plus"}) /\ Left.t = "StringT" =>
          /\ ret.outcome = "Ok"
          /\ ret.val = StringT(Left.v \o (CASE Right.t = "StringT" -> Right.v
                                            [] Right.t = "Integer" -> ToString(Right.v)
                                            [] Right.t = "Number" -> FracDisplay(Right.v)
                                            [] Right.t = "True" -> "true"
                                            [] Right.t = "False" -> "false"
                                            [] Right.t = "Nil" -> "nil"))
    /\ Applied({"Plus"}) /\ Left.t # "StringT" /\ Right.t = "StringT" =>
          /\ ret.outcome = "Err"
          /\ ret.val = NoValue
          /\ ret.err = "Line 1: + cannot be applied to the given types"

\* "ab" + 1.5 has returned "ab1.5", "ab" + nil has returned "abnil"
C17_Witness ==
    /\ Applied({"Plus"})
    /\ Left = StringT("ab")
    /\ \/ Right = Number(<<3, 2>>) /\ ret.val = StringT("ab1.5")
       \/ Right = Nil /\ ret.val = StringT("abnil")

\* C18: `==` returns Ok for every pair of values, True exactly when the two are the
\* same variant with the same payload and False otherwise; `!=` returns the other
\* of the two
C18_Equality ==
    /\ Applied({"EqualEqual"}) =>
          ret.outcome = "Ok" /\ ret.val = (IF Left = Right THEN True ELSE False)
    /\ Applied({"BangEqual"}) =>
          ret.outcome = "Ok" /\ ret.val = (IF Left = Right THEN False ELSE True)

\* C19: the operands False and Nil, and no other (not 0, 0.0 or ""), are taken as
\* false by if, while, the ternary and `and`/`or` alike: with them the if runs its
\* else branch, or nothing when it has none (a stays 0), the while never runs its
\* body, the ternary gives its second branch, `and` gives its left operand and `or`
\* its right one; with every other operand each of them does the opposite
C19_Truthiness ==
    \A V \in Operands :
        LET falsy == OperandValue[V] \in {False, Nil}
            shown == LiteralDisplay(OperandValue[V])
        IN  /\ src = IfSource(V, TRUE) /\ status = "done" =>
                  out = <<IF falsy THEN "2" ELSE "1">>
            /\ src = IfSource(V, FALSE) =>
                  /\ falsy /\ "a" \in DOMAIN Global => GlobalValues["a"] = Integer(0)
                  /\ status = "done" => out = <<IF falsy THEN "0" ELSE "1">>
            /\ src = WhileSource(V) =>
                  /\ falsy => out \in {<<>>, <<"1">>}
                  /\ status = "done" => out = (IF falsy THEN <<"1">> ELSE <<"nil", "1">>)
            /\ src = TernarySource(<<V>>, <<"(", "a", "=", "7", ")">>, <<"(", "a", "=", "8", ")">>)
                 /\ status = "done" =>
                  out = (IF falsy THEN <<"8", "8">> ELSE <<"7", "7">>)
            /\ src = LogicalSource(V, "and", <<"2">>) /\ status = "done" =>
                  out = (IF falsy THEN <<shown, "0">> ELSE <<"2", "0">>)
            /\ src = LogicalSource(V, "or", <<"2">>) /\ status = "done" =>
                  out = (IF falsy THEN <<"2", "0">> ELSE <<shown, "0">>)

\* `if (0)` has run its first branch, `while (a)` with a = "" has run its body once,
\* `if (nil)` without an else has run nothing
C19_Witness ==
    /\ status = "done"
    /\ \/ src = IfSource("0", TRUE) /\ out = <<"1">>
       \/ src = WhileSource("\"\"") /\ out = <<"nil", "1">>
       \/ src = IfSource("nil", FALSE) /\ out = <<"0">>

\* what `print -V;` prints for a numeric operand
Negated ==
    "0" :> "0" @@ "1" :> "-1" @@ "0.0" :> "0" @@ "1.5" :> "-1.5"

\* C20: scanned, parsed and interpreted, `print +V;` prints V as it is, `print -V;`
\* prints the negated Integer or Number and returns a runtime error for every other
\* operand, and `print !V;` prints true when V is falsy and false when it is truthy
C20_PrefixOperators ==
    \A V \in Operands :
        /\ src = PrefixSource("+", V) /\ status = "done" =>
              result.ok /\ out = <<LiteralDisplay(OperandValue[V])>>
        /\ src = PrefixSource("-", V) /\ status = "done" =>
              IF V \in DOMAIN Negated
              THEN result.ok /\ out = <<Negated[V]>>
              ELSE parsed.ok /\ ~result.ok /\ out = <<>>
        /\ src = PrefixSource("!", V) /\ status = "done" =>
              result.ok /\ out = <<IF Falsy(OperandValue[V]) THEN "true" ELSE "false">>

\* the lines of the nodes of an expression, and of the statements of a program
RECURSIVE ExpressionLines(_)
ExpressionLines(e) ==
    {e.line} \cup
    CASE e.node \in {"Binary", "Logical"} -> ExpressionLines(e.left) \cup ExpressionLines(e.right)
      [] e.node = "Unary" -> ExpressionLines(e.operand)
      [] e.node = "Grouping" -> ExpressionLines(e.expression)
      [] e.node = "Ternary" ->
           ExpressionLines(e.test) \cup ExpressionLines(e.when_true)
              \cup ExpressionLines(e.when_false)
      [] e.node = "Assignment" -> ExpressionLines(e.value)
      [] OTHER -> {}
RECURSIVE StatementLines(_)
StatementLines(s) ==
    CASE s.node = "None" -> {}
      [] s.node \in {"ExpressionStatement", "PrintStatement"} ->
           {s.line} \cup ExpressionLines(s.expr)
      [] s.node = "Declaration" -> {s.line} \cup ExpressionLines(s.initializer)
      [] s.node = "Block" ->
           {s.line} \cup UNION {StatementLines(s.statements[k]) : k \in DOMAIN s.statements}
      [] s.node = "IfStatement" ->
           {s.line} \cup ExpressionLines(s.test) \cup StatementLines(s.when_true)
              \cup StatementLines(s.when_false)
      [] s.node = "WhileStatement" ->
           {s.line} \cup ExpressionLines(s.test) \cup StatementLines(s.body)
ProgramLines == UNION {StatementLines(parsed.val[k]) : k \in DOMAIN parsed.val}

\* what the runtime errors say after their line
RuntimeMessages ==
    {op \o " cannot be applied to the given types" :
        op \in {"+", "-", "*", "/", "<", "<=", ">", ">="}}
    \cup {"Variable '" \o name \o "' referenced before assignment" : name \in Words}
    \cup {"Attempted to assign to '" \o name \o "' before declaration" : name \in Words}
    \cup {"Type Error: cannot negate " \o LiteralDebug(l) :
             l \in {OperandValue[V] : V \in Operands}}

\* the expression of the second statement of the program
Second == parsed.val[2].expr

\* C21: an error interpret returns is `Line n: ` and a message, n >= 1 the line of a
\* node of the program; a binary operator on unsupported types gives the line of its
\* left operand, the read of an undeclared variable the line of the Variable node and
\* `Variable '<name>' referenced before assignment`, an assignment to an undeclared
\* name the line of the Assignment node; the failed read or assignment changes
\* nothing: a keeps its value (the one the assigned value gave it, when that is an
\* assignment itself) and the name stays undeclared
C21_ErrorLines ==
    /\ src \in ExprSources /\ parsed.ok /\ status = "done" /\ ~result.ok =>
          \E n \in ProgramLines, m \in RuntimeMessages :
              n >= 1 /\ result.err = "Line " \o ToString(n) \o ": " \o m
    /\ src \in ErrorSources /\ status = "done" =>
          /\ parsed.ok
          /\ ~result.ok
          /\ out = <<>>
          /\ DOMAIN Global = {"a"}
    /\ \A op \in {"+", "-", "*", "/", "<", "<=", ">", ">="} :
          src = TypeErrorSource(op) /\ status = "done" =>
              /\ Second.node = "Binary"
              /\ Second.left.line = 3
              /\ result.err = "Line 3: " \o op \o " cannot be applied to the given types"
              /\ GlobalValues["a"] = Integer(1)
    /\ src = ReadErrorSource /\ status = "done" =>
          /\ Second.right = Variable("q", 4)
          /\ result.err = "Line 4: Variable 'q' referenced before assignment"
          /\ GlobalValues["a"] = Integer(1)
    /\ \A value \in {<<"a">>, <<"a", "=", "2">>} :
          src = AssignErrorSource(value) /\ status = "done" =>
              /\ Second.node = "Assignment"
              /\ result.err = "Line " \o ToString(Second.line)
                                 \o ": Attempted to assign to 'q' before declaration"
              /\ GlobalValues["a"] = Integer(Len(value) \div 2 + 1)

\* the read of q on line 4 and the assignment to q have returned their errors
C21_Witness ==
    /\ status = "done"
    /\ \/ /\ src = ReadErrorSource
          /\ result.err = "Line 4: Variable 'q' referenced before assignment"
       \/ /\ src = AssignErrorSource(<<"a", "=", "2">>)
          /\ ~result.ok
          /\ GlobalValues["a"] = Integer(2)

\* the lexemes of a source over ScanChars, read off the text: for each, in order,
\* its kind and its line; a blank and a line break are none, `//` hides the rest of
\* its line, a run of letters and digits that starts with a letter is an Identifier,
\* a run of digits is an Integer, or "overflow" when its value is above MaxInteger,
\* and '@' is "unknown"
RECURSIVE RunEnd(_, _, _)
RunEnd(source, i, chars) ==
    IF i <= Len(source) /\ source[i] \in chars THEN RunEnd(source, i + 1, chars) ELSE i
RECURSIVE Lexemes(_, _, _)
Lexemes(source, i, line) ==
    IF i > Len(source) THEN <<>>
    ELSE CASE source[i] = "\n" -> Lexemes(source, i + 1, line + 1)
           [] source[i] = " " -> Lexemes(source, i + 1, line)
           [] source[i] = ";" -> <<<<"Semicolon", line>>>> \o Lexemes(source, i + 1, line)
           [] source[i] = "@" -> <<<<"unknown", line>>>> \o Lexemes(source, i + 1, line)
           [] source[i] = "/" ->
                IF i < Len(source) /\ source[i + 1] = "/"
                THEN Lexemes(source, RunEnd(source, i, ScanChars \ {"\n"}), line)
                ELSE <<<<"Slash", line>>>> \o Lexemes(source, i + 1, line)
           [] source[i] = "a" ->
                <<<<"Literal", line>>>> \o Lexemes(source, RunEnd(source, i, {"a", "9"}), line)
           [] source[i] = "9" ->
                <<<<IF 10 ^ (RunEnd(source, i, {"9"}) - i) - 1 > MaxInteger
                    THEN "overflow" ELSE "Literal", line>>>>
                   \o Lexemes(source, RunEnd(source, i, {"9"}), line)

\* the lexemes of the kinds given, in order
RECURSIVE Only(_, _)
Only(lexemes, kinds) ==
    IF lexemes = <<>> THEN <<>>
    ELSE (IF Head(lexemes)[1] \in kinds THEN <<Head(lexemes)>> ELSE <<>>)
            \o Only(Tail(lexemes), kinds)
Erroneous(source) == Only(Lexemes(source, 1, 1), {"unknown", "overflow"})

\* C22: scan_tokens leaves its cursor at the end of the source and returns the tokens
\* exactly when it met no error, and otherwise its errors, on lines that never
\* decrease, and no token: then run has stopped after the scan, with nothing parsed,
\* evaluated or printed; on a source without string literals the errors are one for
\* each erroneous lexeme, in the order and on the lines of the source, an unknown
\* character being `Unidentified character <c>`, and the tokens are those of the
\* lexemes in order, each on its line
C22_ScanErrors ==
    src # <<>> =>
        LET S == ScanTokens(src)
            L == Lexemes(src, 1, 1)
            E == Erroneous(src)
        IN  /\ S.current = Len(src)
            /\ S.ok = (S.errors = <<>>)
            /\ S.errors # <<>> => S.tokens = <<>>
            /\ \A j, k \in DOMAIN S.errors : j < k => S.errors[j].line_no <= S.errors[k].line_no
            /\ S.ok => parsed.stage = "parse"
            /\ ~S.ok =>
                  /\ parsed = [stage |-> "scan", ok |-> FALSE, val |-> <<>>,
                               err |-> FailedToScan("Failed to scan:\n", S.errors)]
                  /\ status = "done"
                  /\ result = ResultErr(parsed.err)
                  /\ kont = <<>>
                  /\ out = <<>>
                  /\ steps = 0
                  /\ Env = EnvNew
            /\ src \in CharSources =>
                  /\ Len(S.errors) = Len(E)
                  /\ \A k \in DOMAIN E :
                        /\ S.errors[k].line_no = E[k][2]
                        /\ E[k][1] = "unknown" =>
                              S.errors[k].message = "Unidentified character @"
                  /\ E = <<>> =>
                        /\ Len(S.tokens) = Len(L)
                        /\ \A k \in DOMAIN L :
                              /\ S.tokens[k].item.type = L[k][1]
                              /\ S.tokens[k].line = L[k][2]

\* `@;@` on two lines: two errors, the second on line 2, and nothing has run
C22_Witness ==
    /\ src = <<"@", ";", "\n", "@">>
    /\ status = "done"
    /\ parsed.stage = "scan"
    /\ Len(ScanTokens(src).errors) = 2
    /\ ScanTokens(src).errors[2].line_no = 2

\* a string literal as the text reads, from the character after its opening quote:
\* each recognised escape stands for its character, a backslash and the line break
\* after it stand for nothing, and every other character stands for itself up to
\* the closing quote
RECURSIVE Decoded(_, _, _)
Decoded(source, i, string) ==
    IF i > Len(source) THEN [kind |-> "unterminated", string |-> string, end |-> i]
    ELSE IF source[i] = "\"" THEN [kind |-> "terminated", string |-> string, end |-> i]
    ELSE IF source[i] # "\\" THEN Decoded(source, i + 1, string \o source[i])
    ELSE IF i = Len(source) THEN [kind |-> "unterminated", string |-> string, end |-> i]
    ELSE IF source[i + 1] = "\n" THEN Decoded(source, i + 2, string)
    ELSE IF source[i + 1] \in {"t", "n", "r", "\\", "'", "\""}
    THEN Decoded(source, i + 2,
                 string \o CASE source[i + 1] = "t" -> "\t"
                             [] source[i + 1] = "n" -> "\n"
                             [] source[i + 1] = "r" -> "\r"
                             [] OTHER -> source[i + 1])
    ELSE [kind |-> "invalid", string |-> string, end |-> i + 1]

\* the line of the last character of a source
LastLine(source) == 1 + Cardinality({i \in DOMAIN source : source[i] = "\n"})

\* C23: a source that is one terminated string literal with recognised escapes only
\* scans to one String token on line 1 whose value is the decoded text; an escape
\* that is not recognised gives a scan error, and a literal that is not terminated
\* gives the error `Unterminated string literal` on the last line of the source
C23_StringDecoding ==
    src \in StringSources =>
        LET S == ScanTokens(src)
            D == Decoded(src, 2, "")
        IN  /\ D.kind = "terminated" /\ D.end = Len(src) =>
                  /\ S.ok
                  /\ S.tokens = <<TokenMeta(LiteralTok(StringT(D.string)), 1)>>
            /\ D.kind = "invalid" =>
                  /\ ~S.ok
                  /\ S.errors[1].message = "Invalid escape char: " \o src[D.end]
            /\ D.kind = "unterminated" =>
                  /\ ~S.ok
                  /\ S.errors = <<ScannerError("Unterminated string literal", LastLine(src))>>

\* C24: a `for` header without the `;` after its condition, or without the `;` after
\* an expression initializer, does not parse: the parser returns an error and no
\* statement
C24_MissingDelimiter ==
    src \in MissingDelimiterSources /\ parsed.stage = "parse" =>
        /\ ~parsed.ok
        /\ parsed.val = <<>>
        /\ parsed.err # ""

\* C25: the line of every node of a parsed program is at least 1 and at most the
\* last line of the source, and the line of a PrintStatement, a Declaration, a
\* Ternary, a Binary, a Logical and of the two blocks a `for` becomes is the line of
\* the first token of the statement
C25_NodeLines ==
    src \in LineSources /\ parsed.stage = "parse" =>
        LET first == IF Head(src) = "\n" THEN 2 ELSE 1
            S == parsed.val[1]
        IN  /\ parsed.ok
            /\ \A n \in ProgramLines : n >= 1 /\ n <= LastLine(src)
            /\ S.node \in {"PrintStatement", "Declaration", "Block"} => S.line = first
            /\ S.node = "ExpressionStatement" =>
                  /\ S.expr.node \in {"Ternary", "Binary", "Logical"}
                  /\ S.expr.line = first
            /\ S.node = "Block" =>
                  /\ S.statements[1].node = "WhileStatement"
                  /\ S.statements[1].body.node = "Block"
                  /\ S.statements[1].body.line = first

\* the operators of the Unary nodes of an expression, and of a statement
RECURSIVE UnaryTypes(_)
UnaryTypes(e) ==
    CASE e.node \in {"Binary", "Logical"} -> UnaryTypes(e.left) \cup UnaryTypes(e.right)
      [] e.node = "Unary" -> {e.operator.type} \cup UnaryTypes(e.operand)
      [] e.node = "Grouping" -> UnaryTypes(e.expression)
      [] e.node = "Ternary" ->
           UnaryTypes(e.test) \cup UnaryTypes(e.when_true) \cup UnaryTypes(e.when_false)
      [] e.node = "Assignment" -> UnaryTypes(e.value)
      [] OTHER -> {}
RECURSIVE StatementUnaryTypes(_)
StatementUnaryTypes(s) ==
    CASE s.node \in {"ExpressionStatement", "PrintStatement"} -> UnaryTypes(s.expr)
      [] s.node = "Declaration" -> UnaryTypes(s.initializer)
      [] s.node = "Block" ->
           UNION {StatementUnaryTypes(s.statements[k]) : k \in DOMAIN s.statements}
      [] OTHER -> {}

\* the types of the tokens of the Parser from the cursor `from` on, padded
TypesFrom(from) ==
    [k \in 1..4 |-> IF from + k <= Len(ret.tokens)
                    THEN ret.tokens[from + k].item.type ELSE "Eof"]

\* where the declaration that starts at the cursor `from` expects its first unary:
\* at its start, after `print`, after `(`, after a prefix `+` or `-`, after a literal
\* and a binary operator or `=`, after `var <name> =`
PrefixPosition(from) ==
    LET t == TypesFrom(from)
    IN  CASE t[1] \in {"Print", "LeftParen", "Plus", "Minus"} -> from + 1
          [] t[1] = "Literal" /\ t[2] \in {"Plus", "Minus", "Star", "Slash", "Equal"} -> from + 2
          [] /\ t[1] = "Var" /\ t[2] = "Literal" /\ t[3] = "Equal"
             /\ ret.tokens[from + 2].item.lit.t = "Identifier" -> from + 3
          [] OTHER -> from

\* `* / ! != = == < <= > >=`
InvalidPrefixes ==
    {"Star", "Slash", "Bang", "BangEqual", "Equal", "EqualEqual", "Lesser", "LesserEqual",
     "Greater", "GreaterEqual"}

StatementStarters == {"Class", "Fun", "Var", "For", "If", "While", "Print", "Return"}
Rests(tokens, e, q) ==
    \/ q >= Len(tokens)
    \/ tokens[q + 1].item.type \in StatementStarters
    \/ q - 1 >= e + 1 /\ tokens[q].item.type = "Semicolon"
SyncPoint(tokens, e) ==
    CHOOSE q \in (e + 1)..(Len(tokens) + e + 1) :
        Rests(tokens, e, q) /\ \A p \in (e + 1)..(q - 1) : ~Rests(tokens, e, p)

\* the cursor at which the error of a failing declaration that starts at c was
\* raised: in a block, by the first statement of it that fails, or by the missing
\* `}` at the end of the tokens
RECURSIVE RaisedFrom(_, _), RaisedInBlock(_, _)
RaisedFrom(tokens, c) ==
    IF match_head(tokens, c, "LeftBrace") THEN RaisedInBlock(tokens, c + 1)
    ELSE declared(tokens, c).cur
RaisedInBlock(tokens, c) ==
    IF is_at_end(tokens, c) THEN c
    ELSE IF declared(tokens, c).ok THEN RaisedInBlock(tokens, declared(tokens, c).cur)
    ELSE RaisedFrom(tokens, c)

\* C27: a declaration that fails returns the error that was raised, with the cursor
\* past the token where it was raised and at the first place after it where a
\* synchronisation rests; a declaration that succeeds leaves the cursor after its
\* last token: its tokens alone parse to the same statement
C27_Synchronisation ==
    "call" \in DOMAIN ret /\ ret.call = "declaration" =>
        IF ret.ok
        THEN /\ ret.current = ret.at
             /\ ret.current > ret.from
             /\ declared(SubSeq(ret.tokens, ret.from + 1, ret.current), 0)
                   = ParseOk(ret.statements[Len(ret.statements)], ret.current - ret.from)
        ELSE /\ ret.err = ret.raised
             /\ ret.current >= RaisedFrom(ret.tokens, ret.from) + 1
             /\ ret.current = SyncPoint(ret.tokens, RaisedFrom(ret.tokens, ret.from))

\* C28: a declaration never moves the cursor back, and moves it forward when it
\* succeeds, so parse has pushed at most one statement for each token; the cursor is
\* never more than one past the end of the tokens; peek returns the token at the
\* cursor, and nothing when the cursor is at or past the end; after reset the
\* cursor is 0
C28_Progress ==
    "call" \in DOMAIN ret =>
        /\ ret.call = "declaration" =>
              /\ ret.current >= ret.from
              /\ ret.ok => ret.current > ret.from
        /\ Len(ret.statements) <= Len(ret.tokens)
        /\ ret.current <= Len(ret.tokens) + 1
        /\ ret.peeked.read =>
              /\ ret.peeked.some = (ret.current < Len(ret.tokens))
              /\ ret.peeked.some =>
                    /\ ret.peeked.index \in 0..(Len(ret.tokens) - 1)
                    /\ ret.peeked.token = ret.tokens[ret.peeked.index + 1]
        /\ ret.call = "reset" => ret.current = 0

====
